---- MODULE Spec2Model ----
(***************************************************************************)
(* Model of the Rust `use`-import streamlining engine of alfred-workflows  *)
(* (src/process_text.py and src/rust_import_helpers.py).                   *)
(*                                                                         *)
(* A Python string is a sequence of one-character strings, a text is the   *)
(* sequence of its lines (text.split("\n")), and list indices are 1-based: *)
(* the model's index i stands for Python's i - 1.                          *)
(***************************************************************************)
EXTENDS Integers, Sequences, FiniteSets, TLC

(***************************************************************************)
(* Python string primitives                                                *)
(***************************************************************************)

\* Code-point order of the characters the inputs are written in ("grave" is
\* the grave accent, U+0060).
Alphabet ==
    << "\n", " ", "!", "#", "(", ")", "*", ",", "-", "/", "1", ":", ";", "=",
       "A", "B", "C", "D", "E", "R", "[", "]", "_", "grave",
       "a", "b", "c", "d", "e", "f", "g", "i", "l", "m", "n", "o", "p", "r", "s", "t",
       "u", "x", "y",
       "{", "}" >>

Ord(c) == CHOOSE k \in DOMAIN Alphabet : Alphabet[k] = c

IsSpace(c) == c = " "

IsLower(c) == Ord(c) >= Ord("a") /\ Ord(c) <= Ord("y")

\* s[lo:hi] for 0 <= lo and an already resolved 0 <= hi (elements lo+1 .. hi).
Slice(s, lo, hi) ==
    LET h == IF hi > Len(s) THEN Len(s) ELSE hi
    IN  IF lo >= h THEN << >> ELSE SubSeq(s, lo + 1, h)

\* str.strip()
Strip(s) ==
    LET ks == { k \in DOMAIN s : ~IsSpace(s[k]) }
    IN  IF ks = {} THEN << >>
        ELSE SubSeq(s, CHOOSE k \in ks : \A j \in ks : k <= j,
                       CHOOSE k \in ks : \A j \in ks : k >= j)

\* str.rstrip(chars) for a one-character set: rstrip("::") and rstrip(":")
RStripChar(s, c) ==
    LET ks == { k \in DOMAIN s : s[k] # c }
    IN  IF ks = {} THEN << >>
        ELSE SubSeq(s, 1, CHOOSE k \in ks : \A j \in ks : k >= j)

\* str.isspace(): non-empty and all whitespace
IsSpaceStr(s) == Len(s) > 0 /\ \A k \in DOMAIN s : IsSpace(s[k])

StartsWith(s, p) == Len(s) >= Len(p) /\ SubSeq(s, 1, Len(p)) = p

EndsWith(s, p) == Len(s) >= Len(p) /\ SubSeq(s, Len(s) - Len(p) + 1, Len(s)) = p

\* 1-based position of the first occurrence of p in s, 0 when there is none
Find(s, p) ==
    LET ks == { k \in 1..(Len(s) - Len(p) + 1) : SubSeq(s, k, k + Len(p) - 1) = p }
    IN  IF ks = {} THEN 0 ELSE CHOOSE k \in ks : \A j \in ks : k <= j

\* `p in s`
Contains(s, p) == Find(s, p) # 0

\* str.count(c) for one character
Count(s, c) == Cardinality({ k \in DOMAIN s : s[k] = c })

\* str.split(sep)
RECURSIVE Split(_, _)
Split(s, sep) ==
    LET k == Find(s, sep)
    IN  IF k = 0 THEN << s >>
        ELSE << SubSeq(s, 1, k - 1) >> \o Split(Slice(s, k + Len(sep) - 1, Len(s)), sep)

\* sep.join(parts)
RECURSIVE Join(_, _)
Join(parts, sep) ==
    IF Len(parts) = 0 THEN << >>
    ELSE IF Len(parts) = 1 THEN parts[1]
    ELSE parts[1] \o sep \o Join(Tail(parts), sep)

\* re.sub(r"\s+", "", s)
RemoveWhitespace(s) == SelectSeq(s, LAMBDA c : ~IsSpace(c))

\* a < b for two strings (code-point lexicographic order)
RECURSIVE StrLess(_, _)
StrLess(a, b) ==
    IF Len(b) = 0 THEN FALSE
    ELSE IF Len(a) = 0 THEN TRUE
    ELSE IF a[1] # b[1] THEN Ord(a[1]) < Ord(b[1])
    ELSE StrLess(Tail(a), Tail(b))

\* sorted(S) for a set of strings
RECURSIVE Sorted(_)
Sorted(S) ==
    IF S = {} THEN << >>
    ELSE LET m == CHOOSE x \in S : \A y \in S : x = y \/ StrLess(x, y)
         IN  << m >> \o Sorted(S \ {m})

Reverse(s) == [k \in DOMAIN s |-> s[Len(s) + 1 - k]]

\* Iteration order of a Python set of strings. It follows the strings' hashes,
\* which change with the interpreter's hash seed: the seed picks one of two orders.
SetOrder(S, seed) == IF seed = 0 THEN Sorted(S) ELSE Reverse(Sorted(S))

Range(s) == { s[k] : k \in DOMAIN s }

RECURSIVE Flatten(_)
Flatten(ss) == IF Len(ss) = 0 THEN << >> ELSE ss[1] \o Flatten(Tail(ss))

(***************************************************************************)
(* Literals                                                                *)
(***************************************************************************)
USE_ == << "u", "s", "e", " " >>
PUB_USE_ == << "p", "u", "b", " ", "u", "s", "e", " " >>
COLONS == << ":", ":" >>
GLOB == << ":", ":", "*" >>
SELF == << "s", "e", "l", "f" >>
CFG == << "#", "[", "c", "f", "g" >>
CLOSE == << "}", ";" >>
SEMI == << ";" >>
LBRACE == << "{" >>
SPACE == << " " >>
COMMA_SPACE == << ",", " " >>
COMMA == << "," >>
INDENT == << " ", " ", " ", " " >>
LPAREN == << "(" >>
RPAREN == << ")" >>
FROM_ == << "f", "r", "o", "m", " " >>
IMPORT_ == << "i", "m", "p", "o", "r", "t", " " >>
SP_IMPORT_ == SPACE \o IMPORT_

(***************************************************************************)
(* rust_import_helpers.py: brace-aware item parsing                        *)
(***************************************************************************)

\* The flush of `current` at a top-level comma and after the last character.
FlushItem(st) ==
    LET item == Strip(st.current)
    IN  IF item = << >> THEN [st EXCEPT !.current = << >>]
        ELSE IF item = SELF THEN [st EXCEPT !.current = << >>, !.has_self = TRUE]
        ELSE [st EXCEPT !.current = << >>, !.items = Append(st.items, item)]

\* One iteration of `for char in items_str`.
ScanChar(st, char) ==
    IF char = "{" THEN
        [st EXCEPT !.brace_level = st.brace_level + 1, !.current = Append(st.current, char)]
    ELSE IF char = "}" THEN
        [st EXCEPT !.brace_level = st.brace_level - 1, !.current = Append(st.current, char)]
    ELSE IF char = "," /\ st.brace_level = 0 THEN FlushItem(st)
    ELSE [st EXCEPT !.current = Append(st.current, char)]

RECURSIVE ScanFrom(_, _, _)
ScanFrom(items_str, k, st) ==
    IF k > Len(items_str) THEN st
    ELSE ScanFrom(items_str, k + 1, ScanChar(st, items_str[k]))

\* _parse_brace_aware_items: (items_list, has_self)
parse_brace_aware_items(items_str) ==
    LET st == FlushItem(ScanFrom(items_str, 1,
                  [items |-> << >>, current |-> << >>, brace_level |-> 0,
                   has_self |-> FALSE]))
    IN  [items |-> st.items, has_self |-> st.has_self]

\* parse_nested_import_items: the items as a set, 'self' put back
parse_nested_import_items(items_str) ==
    LET r == parse_brace_aware_items(items_str)
    IN  Range(r.items) \cup (IF r.has_self THEN {SELF} ELSE {})

(***************************************************************************)
(* rust_import_helpers.py: process_import_with_braces                      *)
(* A dict is the sequence of its (key, value) entries in insertion order;  *)
(* a raised IndexError is ok = FALSE.                                      *)
(***************************************************************************)

MapHas(mapping, key) == \E k \in DOMAIN mapping : mapping[k].base = key

\* mapping.setdefault(base, set()).add(name)
MapAdd(mapping, base, name) ==
    IF MapHas(mapping, base)
    THEN [k \in DOMAIN mapping |->
            IF mapping[k].base = base
            THEN [mapping[k] EXCEPT !.items = mapping[k].items \cup {name}]
            ELSE mapping[k]]
    ELSE Append(mapping, [base |-> base, items |-> {name}])

\* [p.strip() for p in itm.split("::") if p.strip()]
StrippedParts(itm) ==
    LET ps == Split(itm, COLONS)
    IN  SelectSeq([k \in DOMAIN ps |-> Strip(ps[k])], LAMBDA p : p # << >>)

\* [p for p in path.split("::") if p]
NonEmptyParts(path) == SelectSeq(Split(path, COLONS), LAMBDA p : p # << >>)

\* f"{prefix}::" + rest if prefix else rest
PrefixJoin(prefix, rest) == IF prefix # << >> THEN prefix \o COLONS \o rest ELSE rest

RECURSIVE handle_item(_, _, _, _)
RECURSIVE handle_items(_, _, _, _)
handle_item(prefix, raw, acc, seed) ==
    LET itm == Strip(raw)
    IN  IF ~acc.ok THEN acc
        ELSE IF Contains(itm, LBRACE) THEN
            LET k == Find(itm, LBRACE)
                mod_name == RStripChar(Strip(Slice(itm, 0, k - 1)), ":")
                nested == Slice(itm, k, Len(itm) - 1)
                new_prefix == PrefixJoin(prefix, mod_name)
            IN  handle_items(new_prefix,
                             SetOrder(parse_nested_import_items(nested), seed), acc, seed)
        ELSE IF Contains(itm, COLONS) THEN
            LET parts == StrippedParts(itm)
            IN  IF Len(parts) >= 2
                THEN [acc EXCEPT !.mapping =
                        MapAdd(acc.mapping,
                               PrefixJoin(prefix, Join(SubSeq(parts, 1, Len(parts) - 1), COLONS)),
                               parts[Len(parts)])]
                ELSE IF Len(parts) = 0
                THEN [acc EXCEPT !.ok = FALSE]             \* parts[-1]: IndexError
                ELSE [acc EXCEPT !.mapping = MapAdd(acc.mapping, prefix, parts[Len(parts)])]
        ELSE [acc EXCEPT !.mapping = MapAdd(acc.mapping, prefix, itm)]

handle_items(prefix, itms, acc, seed) ==
    IF Len(itms) = 0 THEN acc
    ELSE handle_items(prefix, Tail(itms), handle_item(prefix, itms[1], acc, seed), seed)

\* process_import_with_braces(import_path), called only when "{" is in import_path
process_import_with_braces(import_path, seed) ==
    LET k == Find(import_path, LBRACE)
        full_path == RStripChar(Slice(import_path, 0, k - 1), ":")
        items_str == Slice(import_path, k, Len(import_path) - 1)
        items == parse_nested_import_items(items_str)
    IN  handle_items(full_path, SetOrder(items, seed), [ok |-> TRUE, mapping |-> << >>], seed)

(***************************************************************************)
(* process_text.py: the unique policy's helpers                            *)
(***************************************************************************)

IsImportLine(stripped) == StartsWith(stripped, PUB_USE_) \/ StartsWith(stripped, USE_)

\* One (prev_item, new_item) test of _is_covered_by's inner loop.
ItemCovers(prev_item, new_item) ==
    \/ prev_item = new_item
    \/ /\ EndsWith(prev_item, GLOB)
       /\ LET prefix == Slice(prev_item, 0, Len(prev_item) - 3)
          IN  new_item = prefix \/ StartsWith(new_item, prefix \o COLONS)

\* _is_covered_by(prev_key, new_key)
is_covered_by(prev_key, new_key) ==
    IF prev_key.cfg # new_key.cfg \/ prev_key.is_pub # new_key.is_pub THEN FALSE
    ELSE \A new_item \in new_key.paths :
            \E prev_item \in prev_key.paths : ItemCovers(prev_item, new_item)

\* The full paths of a braced import with 'self' kept as a last segment
\* (a variant the properties must tell apart).
MappingPathsKeepSelf(mapping) ==
    UNION { { mapping[k].base \o COLONS \o item : item \in mapping[k].items } :
            k \in DOMAIN mapping }

\* The full paths of a braced import: 'self' stands for its base path.
MappingPaths(mapping) ==
    UNION { { IF item = SELF THEN mapping[k].base ELSE mapping[k].base \o COLONS \o item
              : item \in mapping[k].items } : k \in DOMAIN mapping }

\* _canonicalize_import(cfg_attr, stmt_str): (cfg_norm, is_pub, full_paths);
\* cfg_attr is << >> for None; ok = FALSE when process_import_with_braces raises.
canonicalize_import(cfg_attr, stmt_str, seed) ==
    LET cfg_norm == Strip(RemoveWhitespace(cfg_attr))
        is_pub == StartsWith(stmt_str, PUB_USE_)
        prefix_len == IF is_pub THEN 8 ELSE 4
        import_path == Strip(Slice(stmt_str, prefix_len, Len(stmt_str) - 1))
        braced == process_import_with_braces(import_path, seed)
        parts == NonEmptyParts(import_path)
    IN  IF EndsWith(import_path, GLOB)
        THEN [ok |-> TRUE, cfg |-> cfg_norm, is_pub |-> is_pub, paths |-> {import_path}]
        ELSE IF Contains(import_path, LBRACE)
        THEN [ok |-> braced.ok, cfg |-> cfg_norm, is_pub |-> is_pub,
              paths |-> IF braced.ok THEN MappingPaths(braced.mapping) ELSE {}]
        ELSE [ok |-> TRUE, cfg |-> cfg_norm, is_pub |-> is_pub,
              paths |-> IF Len(parts) > 0 THEN {Join(parts, COLONS)} ELSE {}]

\* _collect_import_block(lines, start_idx): the block is lines[first..last],
\* end_idx is j (Len(lines) + 1 when no line ends with "};").
collect_import_block(ls, start_idx) ==
    LET first_stripped == Strip(ls[start_idx])
        closing == { k \in (start_idx + 1)..Len(ls) : EndsWith(Strip(ls[k]), CLOSE) }
        j == IF closing = {} THEN Len(ls) + 1
             ELSE CHOOSE k \in closing : \A m \in closing : k <= m
        last == IF j <= Len(ls) THEN j ELSE Len(ls)
    IN  IF EndsWith(first_stripped, SEMI)
        THEN [first |-> start_idx, last |-> start_idx, end_idx |-> start_idx,
              compact |-> first_stripped]
        ELSE [first |-> start_idx, last |-> last, end_idx |-> j,
              compact |-> Join([k \in 1..(last - start_idx + 1) |->
                                   Strip(ls[start_idx + k - 1])], SPACE)]

(***************************************************************************)
(* Input texts: a text is the concatenation of at most MaxItems source     *)
(* constructs taken from a catalogue. kind says what the construct is in   *)
(* Rust: "import" for a use declaration (with its attribute line, if any), *)
(* "other" for anything else, malformed `use` lines included.              *)
(***************************************************************************)
MaxItems == 3

Path2(m, n) == << m >> \o COLONS \o << n >>
Path3(m, n, o) == << m >> \o COLONS \o << n >> \o COLONS \o << o >>
Braces(items) == LBRACE \o Join(items, COMMA_SPACE) \o << "}" >>
cfg_x == CFG \o << "(", "x", ")", "]" >>
cfg_x_spaced == CFG \o << "(", " ", "x", " ", ")", "]" >>
cfg_y == CFG \o << "(", "y", ")", "]" >>
use_a_B == USE_ \o Path2("a", "B") \o SEMI
fn_f == << "f", "n", " ", "f", "(", ")", " ", "{", "}" >>
\* a name of n characters
LongName(c, n) == [k \in 1..n |-> c]
Import(ls) == [kind |-> "import", lines |-> ls]
\* Python constructs carry what they mean to Python: the module and the names.
PyFrom(ls, m, ns) == [kind |-> "from", lines |-> ls, module |-> m, names |-> ns]
PyImport(ls, m) == [kind |-> "pyimport", lines |-> ls, module |-> m, names |-> {}]
Other(ls) == [kind |-> "other", lines |-> ls]

Catalogue ==
    << Import(<< use_a_B >>),                                                   \*  1
       Import(<< USE_ \o << "a" >> \o COLONS \o Braces(<< << "B" >> >>) \o SEMI >>),      \*  2
       Import(<< USE_ \o << "a" >> \o COLONS
                   \o Braces(<< << "B" >>, << "C" >> >>) \o SEMI >>),           \*  3
       Import(<< USE_ \o Path2("a", "C") \o SEMI >>),                           \*  4
       Import(<< USE_ \o << "a" >> \o GLOB \o SEMI >>),                         \*  5
       Import(<< cfg_x, use_a_B >>),                                            \*  6
       Import(<< cfg_x_spaced, use_a_B >>),                                     \*  7
       Import(<< cfg_y, use_a_B >>),                                            \*  8
       Import(<< PUB_USE_ \o Path2("a", "B") \o SEMI >>),                       \*  9
       Other(<< fn_f >>),                                                       \* 10
       Import(<< USE_ \o Path2("c", "D") \o SEMI \o << " ", "/", "/", " ", "n" >> >>), \* 11
       Import(<< USE_ \o << "a" >> \o COLONS \o LBRACE,
                 << " ", " ", " ", " ", "B", "," >>,
                 CLOSE >>),                                                     \* 12
       Other(<< << >> >>),                                                      \* 13
       Other(<< cfg_x >>),                                                      \* 14
       Other(<< USE_ \o COLONS \o SEMI >>),                                     \* 15
       Other(<< USE_ \o Braces(<< << "A" >>, Path2("b", "C") >>) \o SEMI >>),   \* 16
       Other(<< USE_ \o Path2("a", "B") >>),                                    \* 17
       Other(<< USE_ \o << "a" >> \o COLONS \o LBRACE \o << "B", "," >> >>),    \* 18
       Import(<< USE_ \o << "a" >> \o COLONS
                   \o Braces(<< << "A" >>, Path2("b", "B") >>) \o SEMI >>),     \* 19
       Import(<< USE_ \o Path2("a", "b") \o COLONS \o Braces(<< SELF >>) \o SEMI >>), \* 20
       Import(<< USE_ \o << "a" >> \o COLONS
                   \o Braces(<< << "b" >> \o COLONS \o Braces(<< << "C" >>, << "D" >> >>),
                                << "E" >> >>) \o SEMI >>),                      \* 21
       Import(<< USE_ \o Path3("a", "b", "C") \o SEMI >>),                      \* 22
       Other(<< SPACE \o SPACE >>),                                             \* 23
       Import(<< USE_ \o Path2("a", "b") \o SEMI >>),                           \* 24
       Other(<< SPACE \o SPACE \o fn_f >>),                                     \* 25
       Import(<< USE_ \o << "a", " " >> \o COLONS \o << " ", "B" >> \o SEMI >>), \* 26
       Import(<< cfg_x, cfg_x, use_a_B >>),                                     \* 27
       Import(<< USE_ \o Path2("a", "E") \o SEMI >>),                           \* 28
       Import(<< USE_ \o Path2("a", "b") \o COLONS
                   \o Braces(<< SELF, << "C" >> >>) \o SEMI >>),                \* 29
       Import(<< USE_ \o << "a" >> \o COLONS
                   \o Braces(<< Path2("b", "C"), Path2("c", "D") >>) \o SEMI >>), \* 30
       Import(<< USE_ \o << "a" >> \o COLONS
                   \o Braces(<< << "b" >> \o COLONS \o Braces(<< SELF, << "C" >> >>),
                                << "E" >> >>) \o SEMI >>),                      \* 31
       PyFrom(<< FROM_ \o << "a" >> \o SP_IMPORT_ \o << "b" >> >>,
              << "a" >>, { << "b" >> }),                                        \* 32
       PyFrom(<< FROM_ \o << "a" >> \o SP_IMPORT_ \o << "c", ",", " ", "b" >> >>,
              << "a" >>, { << "b" >>, << "c" >> }),                             \* 33
       PyFrom(<< FROM_ \o << "b" >> \o SP_IMPORT_ \o << "c" >> >>,
              << "b" >>, { << "c" >> }),                                        \* 34
       PyFrom(<< FROM_ \o << "a" >> \o SP_IMPORT_ \o LPAREN,
                 INDENT \o << "c", "," >>,
                 INDENT \o << "b", "," >>,
                 RPAREN >>,
              << "a" >>, { << "b" >>, << "c" >> }),                             \* 35
       PyFrom(<< FROM_ \o << "a" >> \o SP_IMPORT_ \o LPAREN \o << "b", "," >>,
                 INDENT \o << "c" >> \o RPAREN >>,
              << "a" >>, { << "b" >>, << "c" >> }),                             \* 36
       PyFrom(<< FROM_ \o << "a" >> \o SP_IMPORT_ \o LPAREN,
                 INDENT \o << "b", ",", " ", "c" >>,
                 RPAREN >>,
              << "a" >>, { << "b" >>, << "c" >> }),                             \* 37
       Other(<< << "x", " ", "=", " ", "1" >> >>),                              \* 38
       PyImport(<< IMPORT_ \o << "o", "s" >> >>, << "o", "s" >>),               \* 39
       Import(<< USE_ \o Path3("a", "b", "x") \o SEMI >>),                      \* 40
       Import(<< USE_ \o Path3("a", "b", "D") \o SEMI >>),                      \* 41
       Import(<< USE_ \o Path3("a", "c", "D") \o SEMI >>),                      \* 42
       Other(<< USE_ \o << "a" >> \o COLONS \o LBRACE,
                INDENT \o << "B", "}" >> >>),                                    \* 43
       PyFrom(<< FROM_ \o << "b" >> \o SP_IMPORT_ \o LongName("b", 80) >>,
              << "b" >>, { LongName("b", 80) }),                                \* 44
       PyFrom(<< FROM_ \o << "b" >> \o SP_IMPORT_
                   \o LongName("d", 40) \o COMMA_SPACE \o LongName("c", 40) >>,
              << "b" >>, { LongName("c", 40), LongName("d", 40) })              \* 45
    >>

\* The constructs a text of each policy is drawn from.
UniqueItems == { 1, 2, 3, 4, 5, 6, 7, 8, 9, 10, 11, 12, 13, 14, 15, 17, 18 }
GroupItems == { 1, 3, 5, 6, 9, 10, 12, 14, 15, 16, 17, 18, 19, 20, 21, 22, 23, 24 }

Inputs(items) == UNION { [1..n -> items] : n \in 0..MaxItems }

\* The text of an input as its lines: "\n".join of the constructs' lines.
TextOf(inp) ==
    IF Len(inp) = 0 THEN << << >> >>
    ELSE Flatten([k \in DOMAIN inp |-> Catalogue[inp[k]].lines])

\* The lines of input construct k within the text: first and last index.
FirstLine(inp, k) == 1 + Len(Flatten([m \in 1..(k - 1) |-> Catalogue[inp[m]].lines]))
LastLine(inp, k) == Len(Flatten([m \in 1..k |-> Catalogue[inp[m]].lines]))

\* `not text or text.isspace()`
Blank(txt) == \A k \in DOMAIN txt : Strip(txt[k]) = << >>

\* "\n".join(ls), as lines
JoinLines(ls) == IF Len(ls) = 0 THEN << << >> >> ELSE ls

(***************************************************************************)
(* State                                                                   *)
(***************************************************************************)
VARIABLES
    policy,        \* the entry point called: "unique", "low" or "high"
    hashseed,      \* the interpreter's hash seed (see SetOrder)
    input,         \* the constructs the text was written from
    text,          \* the argument, as lines
    lines,         \* the function's `lines`
    i,             \* the scanning loop's index
    iter,          \* iterations of the scanning loop so far
    pc,            \* "start", "scan", "collect", "done" (returned) or "raised"
    out_lines,     \* unique: out_lines
    seen_entries,  \* unique: seen_entries
    kept,          \* unique: the indices of the lines appended to out_lines
    use_statements,\* low, high: parse_import_statements' use_statements
    other_lines,   \* low, high: parse_import_statements' other_lines
    output,        \* the returned text, as lines (<< >> before the return)
    first,         \* what the first call returned, once the result is passed in again
    simple_imports, \* Python: the set of modules named by `import` lines
    from_imports,  \* Python: the (module, items) entries in insertion order
    clip_content,  \* branch name: the argument, one string
    llm_output,    \* branch name: what _llm returned (NotAsked before the call)
    alfred         \* branch name: the returned arg and message (NotYet before)

vars == << policy, hashseed, input, text, lines, i, iter, pc, out_lines,
           seen_entries, kept, use_statements, other_lines, output, first,
           simple_imports, from_imports, clip_content, llm_output, alfred >>

\* The variables of generate_branch_name_from_clip.
BranchVars == << clip_content, llm_output, alfred >>

\* `first` before a result has been passed in again.
NotYet == << >>

\* `llm_output` before _llm has been called.
NotAsked == << "?" >>

InitUniqueOver(items) ==
    /\ policy = "unique"
    /\ hashseed = 0
    /\ input \in Inputs(items)
    /\ text = TextOf(input)
    /\ lines = << >>
    /\ i = 1
    /\ iter = 0
    /\ pc = "start"
    /\ out_lines = << >>
    /\ seen_entries = << >>
    /\ kept = {}
    /\ use_statements = << >>
    /\ other_lines = << >>
    /\ output = << >>
    /\ first = NotYet
    /\ clip_content = << >> /\ llm_output = NotAsked /\ alfred = NotYet
    /\ simple_imports = {}
    /\ from_imports = << >>

InitUnique == InitUniqueOver(UniqueItems)

(***************************************************************************)
(* process_text.py: streamline_rust_imports_unique                         *)
(***************************************************************************)

\* The guard and the split: an empty or blank text is returned as it is.
unique_enter ==
    /\ pc = "start" /\ policy = "unique"
    /\ IF Blank(text)
       THEN /\ pc' = "done"
            /\ output' = text
            /\ lines' = lines
       ELSE /\ pc' = "scan"
            /\ lines' = text
            /\ output' = output
    /\ UNCHANGED << policy, hashseed, input, first, BranchVars, simple_imports, from_imports,
                    text, i, iter, out_lines, seen_entries, kept,
                    use_statements, other_lines >>

\* `stripped.startswith("#[cfg") and i + 1 < len(lines)` and the next line is an import
CfgBeforeImport(ls, k) ==
    /\ StartsWith(Strip(ls[k]), CFG)
    /\ k + 1 <= Len(ls)
    /\ IsImportLine(Strip(ls[k + 1]))

\* The common tail of both import branches: emit the block unless an earlier
\* entry covers it, and move past it. `from` is the first line emitted with it.
UniqueBlock(cfg_attr, from, block) ==
    LET key == canonicalize_import(cfg_attr, block.compact, hashseed)
        entry == [cfg |-> key.cfg, is_pub |-> key.is_pub, paths |-> key.paths]
        covered == \E k \in DOMAIN seen_entries : is_covered_by(seen_entries[k], entry)
    IN  IF ~key.ok
        THEN /\ pc' = "raised"
             /\ UNCHANGED << i, iter, out_lines, seen_entries, kept >>
        ELSE /\ pc' = pc
             /\ i' = block.end_idx + 1
             /\ iter' = iter + 1
             /\ IF covered
                THEN UNCHANGED << out_lines, seen_entries, kept >>
                ELSE /\ seen_entries' = Append(seen_entries, entry)
                     /\ out_lines' = out_lines \o SubSeq(lines, from, block.last)
                     /\ kept' = kept \cup (from..block.last)

\* Loop iteration on a cfg attribute followed by an import.
unique_cfg_import ==
    /\ pc = "scan" /\ policy = "unique" /\ i <= Len(lines)
    /\ CfgBeforeImport(lines, i)
    /\ UniqueBlock(Strip(lines[i]), i, collect_import_block(lines, i + 1))
    /\ UNCHANGED << policy, hashseed, input, first, BranchVars, simple_imports, from_imports,
                    text, lines, use_statements, other_lines, output >>

\* Loop iteration on a plain use / pub use statement.
unique_import ==
    /\ pc = "scan" /\ policy = "unique" /\ i <= Len(lines)
    /\ ~CfgBeforeImport(lines, i)
    /\ IsImportLine(Strip(lines[i]))
    /\ UniqueBlock(<< >>, i, collect_import_block(lines, i))
    /\ UNCHANGED << policy, hashseed, input, first, BranchVars, simple_imports, from_imports,
                    text, lines, use_statements, other_lines, output >>

\* Loop iteration on a non-import line.
unique_other ==
    /\ pc = "scan" /\ policy = "unique" /\ i <= Len(lines)
    /\ ~CfgBeforeImport(lines, i)
    /\ ~IsImportLine(Strip(lines[i]))
    /\ out_lines' = Append(out_lines, lines[i])
    /\ kept' = kept \cup {i}
    /\ i' = i + 1
    /\ iter' = iter + 1
    /\ UNCHANGED << policy, hashseed, input, first, BranchVars, simple_imports, from_imports,
                    text, lines, pc, seen_entries,
                    use_statements, other_lines, output >>

\* return "\n".join(out_lines)
unique_return ==
    /\ pc = "scan" /\ policy = "unique" /\ i > Len(lines)
    /\ pc' = "done"
    /\ output' = JoinLines(out_lines)
    /\ UNCHANGED << policy, hashseed, input, first, BranchVars, simple_imports, from_imports,
                    text, lines, i, iter, out_lines,
                    seen_entries, kept, use_statements, other_lines >>

NextUnique ==
    \/ unique_enter
    \/ unique_cfg_import
    \/ unique_import
    \/ unique_other
    \/ unique_return

SpecUnique == InitUnique /\ [][NextUnique]_vars

(***************************************************************************)
(* rust_import_helpers.py: parse_import_statements, one action per branch  *)
(* of one iteration of its `while i < len(lines)` loop                     *)
(***************************************************************************)
MaxSpin == 2

\* str.lstrip() and str.rstrip()
LStrip(s) ==
    LET ks == { k \in DOMAIN s : ~IsSpace(s[k]) }
    IN  IF ks = {} THEN << >>
        ELSE SubSeq(s, CHOOSE k \in ks : \A j \in ks : k <= j, Len(s))

RStrip(s) == RStripChar(s, " ")

\* text.strip().split("\n") of a text that is not blank
StripText(txt) ==
    LET ks == { k \in DOMAIN txt : Strip(txt[k]) # << >> }
        a == CHOOSE k \in ks : \A j \in ks : k <= j
        b == CHOOSE k \in ks : \A j \in ks : k >= j
    IN  [k \in 1..(b - a + 1) |->
            LET ln == txt[a + k - 1]
                l1 == IF k = 1 THEN LStrip(ln) ELSE ln
            IN  IF k = b - a + 1 THEN RStrip(l1) ELSE l1]

Stmt(cfg_attr, statement, is_pub) == [cfg |-> cfg_attr, stmt |-> statement, is_pub |-> is_pub]

\* " ".join of the stripped lines a..b
JoinStripped(ls, a, b) == Join([k \in 1..(b - a + 1) |-> Strip(ls[a + k - 1])], SPACE)

\* `line.startswith("#[cfg") and i + 1 < len(lines)`
CfgHead(ls, k) == StartsWith(Strip(ls[k]), CFG) /\ k + 1 <= Len(ls)

\* `(is_pub or is_use) and next_line.endswith(";")`
CfgSingle(ls, k) ==
    /\ CfgHead(ls, k)
    /\ IsImportLine(Strip(ls[k + 1]))
    /\ EndsWith(Strip(ls[k + 1]), SEMI)

\* `(is_pub or is_use) and "{" in next_line and not next_line.endswith("};")`
CfgMulti(ls, k) ==
    /\ CfgHead(ls, k)
    /\ ~CfgSingle(ls, k)
    /\ IsImportLine(Strip(ls[k + 1]))
    /\ Contains(Strip(ls[k + 1]), LBRACE)
    /\ ~EndsWith(Strip(ls[k + 1]), CLOSE)

\* The j the inner `while` of the cfg branch stops at (Len(ls) + 1: none closes).
CfgClosing(ls, k) ==
    LET closing == { m \in (k + 2)..Len(ls) : EndsWith(Strip(ls[m]), CLOSE) }
    IN  IF closing = {} THEN Len(ls) + 1 ELSE CHOOSE m \in closing : \A n \in closing : m <= n

\* `line.startswith("pub use ") and line.endswith(";")`, or the same with "use "
PlainSingle(ls, k) ==
    /\ ~CfgHead(ls, k)
    /\ IsImportLine(Strip(ls[k]))
    /\ EndsWith(Strip(ls[k]), SEMI)

\* `(pub use or use) and "{" in line and not line.endswith("};")`
PlainMulti(ls, k) ==
    /\ ~CfgHead(ls, k)
    /\ ~PlainSingle(ls, k)
    /\ IsImportLine(Strip(ls[k]))
    /\ Contains(Strip(ls[k]), LBRACE)
    /\ ~EndsWith(Strip(ls[k]), CLOSE)

\* The brace-counting `while j < len(lines) and brace_count > 0` with its break.
RECURSIVE BraceScan(_, _, _, _)
BraceScan(ls, j, full_statement, brace_count) ==
    IF j <= Len(ls) /\ brace_count > 0
    THEN LET current_line == Strip(ls[j])
             full == full_statement \o SPACE \o current_line
             cnt == brace_count + Count(current_line, "{") - Count(current_line, "}")
         IN  IF cnt = 0 /\ EndsWith(full, SEMI)
             THEN [j |-> j + 1, full_statement |-> full, brace_count |-> cnt]
             ELSE BraceScan(ls, j + 1, full, cnt)
    ELSE [j |-> j, full_statement |-> full_statement, brace_count |-> brace_count]

PlainScan(ls, k) ==
    LET line == Strip(ls[k])
    IN  BraceScan(ls, k + 1, line, Count(line, "{") - Count(line, "}"))

PlainMultiParsed(ls, k) ==
    /\ PlainMulti(ls, k)
    /\ PlainScan(ls, k).brace_count = 0
    /\ EndsWith(PlainScan(ls, k).full_statement, SEMI)

Scanning == pc = "scan" /\ policy \in {"low", "high"} /\ i <= Len(lines)

ParseFrame == UNCHANGED << policy, hashseed, input, first, BranchVars, simple_imports, from_imports,
                           text, lines, pc, out_lines,
                           seen_entries, kept, output >>

\* The guard and `lines = text.strip().split("\n")` of the low and high policies.
group_enter ==
    /\ pc = "start" /\ policy \in {"low", "high"}
    /\ IF Blank(text)
       THEN /\ pc' = "done"
            /\ output' = text
            /\ lines' = lines
       ELSE /\ pc' = "scan"
            /\ lines' = StripText(text)
            /\ output' = output
    /\ UNCHANGED << policy, hashseed, input, first, BranchVars, simple_imports, from_imports,
                    text, i, iter, out_lines, seen_entries, kept,
                    use_statements, other_lines >>

\* cfg attribute and a single-line import
parse_cfg_single ==
    /\ Scanning /\ CfgSingle(lines, i)
    /\ use_statements' = Append(use_statements,
            Stmt(Strip(lines[i]), Strip(lines[i + 1]), StartsWith(Strip(lines[i + 1]), PUB_USE_)))
    /\ i' = i + 2
    /\ iter' = iter + 1
    /\ UNCHANGED other_lines
    /\ ParseFrame

\* cfg attribute and a multi-line import that a line ending with "};" closes
parse_cfg_multi ==
    /\ Scanning /\ CfgMulti(lines, i) /\ CfgClosing(lines, i) <= Len(lines)
    /\ use_statements' = Append(use_statements,
            Stmt(Strip(lines[i]), JoinStripped(lines, i + 1, CfgClosing(lines, i)),
                 StartsWith(Strip(lines[i + 1]), PUB_USE_)))
    /\ i' = CfgClosing(lines, i) + 1
    /\ iter' = iter + 1
    /\ UNCHANGED other_lines
    /\ ParseFrame

\* cfg attribute and anything else: neither inner branch runs to its `continue`,
\* the elif chain below is skipped, and the iteration ends with i as it was.
parse_cfg_skip ==
    /\ Scanning /\ CfgHead(lines, i)
    /\ ~CfgSingle(lines, i)
    /\ ~(CfgMulti(lines, i) /\ CfgClosing(lines, i) <= Len(lines))
    /\ iter < Len(lines) + MaxSpin
    /\ iter' = iter + 1
    /\ UNCHANGED << i, use_statements, other_lines >>
    /\ ParseFrame

\* single-line import
parse_single ==
    /\ Scanning /\ PlainSingle(lines, i)
    /\ use_statements' = Append(use_statements,
            Stmt(<< >>, Strip(lines[i]), StartsWith(Strip(lines[i]), PUB_USE_)))
    /\ i' = i + 1
    /\ iter' = iter + 1
    /\ UNCHANGED other_lines
    /\ ParseFrame

\* multi-line import whose braces balance on a line that ends the statement
parse_multi ==
    /\ Scanning /\ PlainMultiParsed(lines, i)
    /\ use_statements' = Append(use_statements,
            Stmt(<< >>, PlainScan(lines, i).full_statement, StartsWith(Strip(lines[i]), PUB_USE_)))
    /\ i' = PlainScan(lines, i).j
    /\ iter' = iter + 1
    /\ UNCHANGED other_lines
    /\ ParseFrame

\* A variant that moves past a line it cannot parse and keeps nothing of it.
parse_other_dropping ==
    /\ Scanning /\ ~CfgHead(lines, i)
    /\ ~PlainSingle(lines, i) /\ ~PlainMultiParsed(lines, i)
    /\ i' = i + 1
    /\ iter' = iter + 1
    /\ UNCHANGED << use_statements, other_lines >>
    /\ ParseFrame

\* a multi-line import that could not be parsed, or any other line
parse_other ==
    /\ Scanning /\ ~CfgHead(lines, i)
    /\ ~PlainSingle(lines, i) /\ ~PlainMultiParsed(lines, i)
    /\ other_lines' = Append(other_lines, Strip(lines[i]))
    /\ i' = i + 1
    /\ iter' = iter + 1
    /\ UNCHANGED use_statements
    /\ ParseFrame

\* return use_statements, other_lines
parse_return ==
    /\ pc = "scan" /\ policy \in {"low", "high"} /\ i > Len(lines)
    /\ pc' = "collect"
    /\ UNCHANGED << policy, hashseed, input, first, BranchVars, simple_imports, from_imports,
                    text, lines, i, iter, out_lines, seen_entries,
                    kept, use_statements, other_lines, output >>

(***************************************************************************)
(* rust_import_helpers.py: grouping and regeneration, low policy           *)
(***************************************************************************)

\* statement[prefix_len:-1].strip()
ImportPath(st) ==
    Strip(Slice(st.stmt, IF st.is_pub THEN 8 ELSE 4, Len(st.stmt) - 1))

\* `"::" not in import_path or import_path.endswith("::*")`
IsSpecial(st) == ~Contains(ImportPath(st), COLONS) \/ EndsWith(ImportPath(st), GLOB)

IsBraced(st) == ~IsSpecial(st) /\ Contains(ImportPath(st), LBRACE)

IsSimple(st) == ~IsSpecial(st) /\ ~Contains(ImportPath(st), LBRACE)

\* _split_use_statements: special_imports, and whether a braced statement raised
SpecialImports(stmts) == SelectSeq(stmts, IsSpecial)

BracesOk(stmts, seed) ==
    \A k \in DOMAIN stmts :
        IsBraced(stmts[k]) => process_import_with_braces(ImportPath(stmts[k]), seed).ok

\* collect_low_groups: grouped_by_base as the set of its
\* (base_path, is_pub, attr_key, item) memberships
LowEntries(st, seed) ==
    IF IsBraced(st)
    THEN LET mapping == process_import_with_braces(ImportPath(st), seed).mapping
         IN  UNION { { [base |-> mapping[k].base, is_pub |-> st.is_pub,
                        attr |-> st.cfg, item |-> item] : item \in mapping[k].items }
                     : k \in DOMAIN mapping }
    ELSE IF IsSimple(st)
    THEN LET parts == NonEmptyParts(ImportPath(st))
         IN  { [base |-> IF Len(parts) >= 2
                         THEN Join(SubSeq(parts, 1, Len(parts) - 1), COLONS)
                         ELSE parts[1],
                is_pub |-> st.is_pub, attr |-> st.cfg, item |-> parts[Len(parts)]] }
    ELSE {}

collect_low_groups(stmts, seed) ==
    LET ok == /\ BracesOk(stmts, seed)
              /\ \A k \in DOMAIN stmts :                    \* parts[0]: IndexError
                    IsSimple(stmts[k]) => Len(NonEmptyParts(ImportPath(stmts[k]))) > 0
    IN  [ok |-> ok,
         grouped |-> IF ok THEN UNION { LowEntries(stmts[k], seed) : k \in DOMAIN stmts }
                     ELSE {},
         special |-> SpecialImports(stmts)]

\* the special imports, each after its attribute
SpecialLines(special) ==
    Flatten([k \in DOMAIN special |->
                IF special[k].cfg # << >> THEN << special[k].cfg, special[k].stmt >>
                ELSE << special[k].stmt >>])

\* organize_items_by_module: the simple items. No item that the parser and the
\* collectors produce holds "::" or "{", so module_groups stays empty.
organize_items_by_module(items) ==
    { it \in items : ~Contains(it, COLONS) /\ ~Contains(it, LBRACE) }

\* A variant that leaves `self` where it sorts.
SelfInPlace(items) == Sorted(items)

\* sorted simple items, 'self' last
SelfLast(items) ==
    Sorted(items \ {SELF}) \o (IF SELF \in items THEN << SELF >> ELSE << >>)

\* The statement generate_import_statements writes for one (base, is_pub, attr).
FormatLowGroup(base_path, is_pub, cfg_attr, items) ==
    LET prefix == IF is_pub THEN PUB_USE_ ELSE USE_
        sorted_items == SelfLast(organize_items_by_module(items))
    IN  (IF cfg_attr # << >> THEN << cfg_attr >> ELSE << >>) \o
        (IF Len(sorted_items) = 1
         THEN << prefix \o base_path \o COLONS \o sorted_items[1] \o SEMI >>
         ELSE IF (\E k \in DOMAIN sorted_items : Contains(sorted_items[k], LBRACE))
                 \/ Len(sorted_items) > 2
         THEN << prefix \o base_path \o COLONS \o LBRACE >>
              \o [k \in DOMAIN sorted_items |-> INDENT \o sorted_items[k] \o << "," >>]
              \o << CLOSE >>
         ELSE << prefix \o base_path \o COLONS \o LBRACE
                 \o Join(sorted_items, COMMA_SPACE) \o CLOSE >>)

\* generate_import_statements(grouped_by_base, special_imports)
generate_import_statements(grouped, special) ==
    LET bases == Sorted({ g.base : g \in grouped })
        keys == Flatten([k \in DOMAIN bases |->
                    SelectSeq(<< [base |-> bases[k], is_pub |-> FALSE],
                                 [base |-> bases[k], is_pub |-> TRUE] >>,
                              LAMBDA key : \E g \in grouped :
                                  g.base = key.base /\ g.is_pub = key.is_pub)])
        OfKey(key) == { g \in grouped : g.base = key.base /\ g.is_pub = key.is_pub }
        GroupLines(key) ==
            LET attrs == Sorted({ g.attr : g \in OfKey(key) })
            IN  Flatten([a \in DOMAIN attrs |->
                    FormatLowGroup(key.base, key.is_pub, attrs[a],
                        { g.item : g \in { h \in OfKey(key) : h.attr = attrs[a] } })])
    IN  SpecialLines(special) \o Flatten([k \in DOMAIN keys |-> GroupLines(keys[k])])

\* other_lines + [""] + result, or other_lines + result
Assemble(others, result) ==
    IF Len(others) > 0 /\ Len(result) > 0 THEN others \o << << >> >> \o result
    ELSE others \o result

GroupFrame == UNCHANGED << policy, hashseed, input, first, BranchVars, simple_imports, from_imports,
                           text, lines, i, iter, out_lines,
                           seen_entries, kept, use_statements, other_lines >>

\* What low_generate returns under a given set iteration order
low_result(seed) ==
    LET groups == collect_low_groups(use_statements, seed)
    IN  [ok |-> groups.ok,
         text |-> IF groups.ok
                  THEN JoinLines(Assemble(other_lines,
                          generate_import_statements(groups.grouped, groups.special)))
                  ELSE << >>]

\* streamline_rust_imports_low after the parse
low_generate ==
    /\ pc = "collect" /\ policy = "low"
    /\ LET groups == collect_low_groups(use_statements, hashseed)
       IN  IF groups.ok
           THEN /\ pc' = "done"
                /\ output' = JoinLines(Assemble(other_lines,
                                generate_import_statements(groups.grouped, groups.special)))
           ELSE /\ pc' = "raised"
                /\ output' = output
    /\ GroupFrame

(***************************************************************************)
(* rust_import_helpers.py: grouping and regeneration, high policy          *)
(* root_groups is the sequence of its groups in insertion order; a group   *)
(* holds its "order" and "submap" as one sequence of (sub, items) entries. *)
(***************************************************************************)

\* root_groups[key]["submap"][subpath].update(items), creating what is missing
AddSub(subs, subpath, items) ==
    IF \E k \in DOMAIN subs : subs[k].sub = subpath
    THEN [k \in DOMAIN subs |->
            IF subs[k].sub = subpath
            THEN [subs[k] EXCEPT !.items = subs[k].items \cup items]
            ELSE subs[k]]
    ELSE Append(subs, [sub |-> subpath, items |-> items])

AddRoot(groups, root, is_pub, subpath, items) ==
    IF \E k \in DOMAIN groups : groups[k].root = root /\ groups[k].is_pub = is_pub
    THEN [k \in DOMAIN groups |->
            IF groups[k].root = root /\ groups[k].is_pub = is_pub
            THEN [groups[k] EXCEPT !.subs = AddSub(groups[k].subs, subpath, items)]
            ELSE groups[k]]
    ELSE Append(groups, [root |-> root, is_pub |-> is_pub,
                         subs |-> AddSub(<< >>, subpath, items)])

\* `for base_path, items in mapping.items()` of the braced branch
RECURSIVE AddMapping(_, _, _)
AddMapping(acc, mapping, is_pub) ==
    IF ~acc.ok \/ Len(mapping) = 0 THEN acc
    ELSE LET parts == NonEmptyParts(mapping[1].base)
         IN  IF Len(parts) = 0 THEN [acc EXCEPT !.ok = FALSE]      \* parts[0]: IndexError
             ELSE AddMapping([acc EXCEPT !.groups =
                                 AddRoot(acc.groups, parts[1], is_pub,
                                         Join(Tail(parts), COLONS), mapping[1].items)],
                             Tail(mapping), is_pub)

\* One iteration of collect_root_groups' loop over use_statements.
AddStatement(acc, st, seed) ==
    IF ~acc.ok THEN acc
    ELSE IF IsSpecial(st) THEN [acc EXCEPT !.special = Append(acc.special, st)]
    ELSE IF IsBraced(st) THEN
        LET braced == process_import_with_braces(ImportPath(st), seed)
        IN  IF braced.ok THEN AddMapping(acc, braced.mapping, st.is_pub)
            ELSE [acc EXCEPT !.ok = FALSE]
    ELSE
        LET parts == NonEmptyParts(ImportPath(st))
            subpath == IF Len(parts) > 2 THEN Join(SubSeq(parts, 2, Len(parts) - 1), COLONS)
                       ELSE IF Len(parts) > 1 THEN parts[2]
                       ELSE << >>
        IN  IF Len(parts) = 0 THEN [acc EXCEPT !.ok = FALSE]       \* parts[0]: IndexError
            ELSE [acc EXCEPT !.groups =
                     AddRoot(acc.groups, parts[1], st.is_pub, subpath, {parts[Len(parts)]})]

RECURSIVE CollectFrom(_, _, _)
CollectFrom(acc, stmts, seed) ==
    IF Len(stmts) = 0 THEN acc
    ELSE CollectFrom(AddStatement(acc, stmts[1], seed), Tail(stmts), seed)

\* collect_root_groups(use_statements)
collect_root_groups(stmts, seed) ==
    CollectFrom([ok |-> TRUE, groups |-> << >>, special |-> << >>], stmts, seed)

\* The `for parts in zip(*split_lists)` loop: the common leading segments.
RECURSIVE CommonLeading(_)
CommonLeading(split_lists) ==
    IF \E k \in DOMAIN split_lists : Len(split_lists[k]) = 0 THEN << >>
    ELSE IF \A k \in DOMAIN split_lists : split_lists[k][1] = split_lists[1][1]
    THEN << split_lists[1][1] >>
         \o CommonLeading([k \in DOMAIN split_lists |-> Tail(split_lists[k])])
    ELSE << >>

\* highest_common_subpath(group)
highest_common_subpath(group) ==
    LET nonempty == SelectSeq([k \in DOMAIN group.subs |-> group.subs[k].sub],
                              LAMBDA sub : sub # << >>)
    IN  IF Len(nonempty) = 0 THEN << >>
        ELSE Join(CommonLeading([k \in DOMAIN nonempty |-> Split(nonempty[k], COLONS)]),
                  COLONS)

\* format_high_group._sorted_items
\* _sorted_items as one plain sort (a variant the properties must tell apart)
sorted_items_plain(items) == Sorted(items)

sorted_items(items) ==
    Sorted({ it \in items : Len(it) > 0 /\ IsLower(it[1]) })
        \o Sorted({ it \in items : ~(Len(it) > 0 /\ IsLower(it[1])) })

\* One entry of a high block: the items of a sub-path, bare or braced.
HighEntry(sub, items) ==
    LET its == sorted_items(items)
        body == IF Len(its) = 1 THEN its[1]
                ELSE LBRACE \o Join(its, COMMA_SPACE) \o << "}" >>
    IN  IF sub = << >> THEN body ELSE sub \o COLONS \o body

\* The remainder of a sub-path under common_sub.
Remainder(sub, common_sub) ==
    IF sub = << >> THEN << >>
    ELSE IF StartsWith(sub, common_sub)
    THEN (IF Len(sub) > Len(common_sub) THEN Slice(sub, Len(common_sub) + 2, Len(sub))
          ELSE << >>)
    ELSE sub

\* ordered_remainders: the remainders in first-seen order
RECURSIVE Dedupe(_)
Dedupe(s) ==
    IF Len(s) = 0 THEN << >>
    ELSE LET front == Dedupe(SubSeq(s, 1, Len(s) - 1))
         IN  IF s[Len(s)] \in Range(front) THEN front ELSE Append(front, s[Len(s)])

\* format_high_group(root, is_pub, group, common_sub)
format_high_group(root, is_pub, group, common_sub) ==
    LET prefix == IF is_pub THEN PUB_USE_ ELSE USE_
        subs == group.subs
        inner_map(rem) ==
            UNION { subs[k].items : k \in { m \in DOMAIN subs :
                                            Remainder(subs[m].sub, common_sub) = rem } }
        order == SelectSeq([k \in DOMAIN subs |-> subs[k].sub],
                           LAMBDA sub : StartsWith(sub, common_sub) \/ sub = << >>)
        ordered_remainders == Dedupe([k \in DOMAIN order |-> Remainder(order[k], common_sub)])
    IN  IF common_sub # << >>
        THEN << prefix \o root \o COLONS \o common_sub \o COLONS \o LBRACE >>
             \o [k \in DOMAIN ordered_remainders |->
                    INDENT \o HighEntry(ordered_remainders[k], inner_map(ordered_remainders[k]))
                           \o << "," >>]
             \o << CLOSE >>
        ELSE << prefix \o root \o COLONS \o LBRACE >>
             \o [k \in DOMAIN subs |->
                    INDENT \o HighEntry(subs[k].sub, subs[k].items) \o << "," >>]
             \o << CLOSE >>

\* `for (root, is_pub) in sorted(root_groups.keys())` of streamline_rust_imports_high
HighResult(groups) ==
    LET roots == Sorted({ groups[k].root : k \in DOMAIN groups })
        OfKey(root, is_pub) ==
            SelectSeq(groups, LAMBDA g : g.root = root /\ g.is_pub = is_pub)
        KeyLines(root, is_pub) ==
            LET gs == OfKey(root, is_pub)
            IN  IF Len(gs) = 0 THEN << >>
                ELSE format_high_group(root, is_pub, gs[1], highest_common_subpath(gs[1]))
    IN  Flatten([k \in DOMAIN roots |->
                    KeyLines(roots[k], FALSE) \o KeyLines(roots[k], TRUE)])

\* What high_generate returns under a given set iteration order
high_result(seed) ==
    LET collected == collect_root_groups(use_statements, seed)
    IN  [ok |-> collected.ok,
         text |-> IF collected.ok
                  THEN JoinLines(Assemble(other_lines,
                          SpecialLines(collected.special) \o HighResult(collected.groups)))
                  ELSE << >>]

\* streamline_rust_imports_high after the parse
high_generate ==
    /\ pc = "collect" /\ policy = "high"
    /\ LET collected == collect_root_groups(use_statements, hashseed)
       IN  IF collected.ok
           THEN /\ pc' = "done"
                /\ output' = JoinLines(Assemble(other_lines,
                                SpecialLines(collected.special) \o HighResult(collected.groups)))
           ELSE /\ pc' = "raised"
                /\ output' = output
    /\ GroupFrame

(***************************************************************************)
(* Specifications                                                          *)
(***************************************************************************)
HashSeeds == { 0, 1 }

InitGroupOver(items) ==
    /\ policy \in {"low", "high"}
    /\ hashseed \in (IF policy = "high" THEN HashSeeds ELSE {0})
    /\ input \in Inputs(items)
    /\ text = TextOf(input)
    /\ lines = << >>
    /\ i = 1
    /\ iter = 0
    /\ pc = "start"
    /\ out_lines = << >>
    /\ seen_entries = << >>
    /\ kept = {}
    /\ use_statements = << >>
    /\ other_lines = << >>
    /\ output = << >>
    /\ first = NotYet
    /\ clip_content = << >> /\ llm_output = NotAsked /\ alfred = NotYet
    /\ simple_imports = {}
    /\ from_imports = << >>

InitGroup == InitGroupOver(GroupItems)

NextGroup ==
    \/ group_enter
    \/ parse_cfg_single
    \/ parse_cfg_multi
    \/ parse_cfg_skip
    \/ parse_single
    \/ parse_multi
    \/ parse_other
    \/ parse_return
    \/ low_generate
    \/ high_generate

SpecGroup == InitGroup /\ [][NextGroup]_vars

(***************************************************************************)
(* python_import_helpers.py and process_text.py: streamline_python_imports *)
(* from_imports is the dict as the sequence of its (module, items) entries *)
(* in insertion order; None is the empty string.                           *)
(***************************************************************************)

\* [item.strip() for item in s.split(",")]
StrippedItems(s) == LET ps == Split(s, COMMA) IN [k \in DOMAIN ps |-> Strip(ps[k])]

\* parts[0][5:].strip() of line.split(" import ")
ModuleOf(line) == LET head == Split(line, SP_IMPORT_)[1] IN Strip(Slice(head, 5, Len(head)))

parse_single_line_from_import(line) ==
    LET parts == Split(line, SP_IMPORT_)
        stripped == Strip(parts[2])
        items_part == IF StartsWith(stripped, LPAREN) /\ EndsWith(stripped, RPAREN)
                      THEN Slice(stripped, 1, Len(stripped) - 1)
                      ELSE stripped
    IN  IF Len(parts) # 2 THEN [module |-> << >>, items |-> << >>]
        ELSE [module |-> ModuleOf(line),
              items |-> SelectSeq(StrippedItems(items_part), LAMBDA it : it # << >>)]

\* The idx at which both `while` loops stop: the first line after start_idx
\* that holds ")", Len(ls) + 1 when there is none.
ClosingParen(ls, start_idx) ==
    LET closing == { k \in (start_idx + 1)..Len(ls) : Contains(ls[k], RPAREN) }
    IN  IF closing = {} THEN Len(ls) + 1 ELSE CHOOSE k \in closing : \A m \in closing : k <= m

parse_multiline_from_import(ls, start_idx) ==
    LET idx == ClosingParen(ls, start_idx)
        inner == [k \in 1..(idx - start_idx - 1) |->
                    LET item_line == Strip(ls[start_idx + k])
                    IN  IF item_line # << >> /\ ~StartsWith(item_line, << "#" >>)
                        THEN Strip(RStripChar(item_line, ","))
                        ELSE << >>]
        closing_line == Strip(ls[idx])
        last == IF idx <= Len(ls) /\ closing_line # RPAREN
                THEN << Strip(RStripChar(RStripChar(closing_line, ","), ")")) >>
                ELSE << >>
    IN  [module |-> ModuleOf(Strip(ls[start_idx])),
         items |-> SelectSeq(inner \o last, LAMBDA it : it # << >> /\ it # RPAREN)]

count_lines_until_closing_paren(ls, start_idx) ==
    LET idx == ClosingParen(ls, start_idx)
    IN  (idx - start_idx) + (IF idx <= Len(ls) THEN 1 ELSE 0)

RECURSIVE AppendNew(_, _)
AppendNew(have, items) ==
    IF Len(items) = 0 THEN have
    ELSE AppendNew(IF items[1] # << >> /\ items[1] \notin Range(have)
                   THEN Append(have, items[1]) ELSE have, Tail(items))

add_from_imports(fi, module, items) ==
    IF \E k \in DOMAIN fi : fi[k].module = module
    THEN [k \in DOMAIN fi |->
            IF fi[k].module = module
            THEN [fi[k] EXCEPT !.items = AppendNew(fi[k].items, items)]
            ELSE fi[k]]
    ELSE Append(fi, [module |-> module, items |-> AppendNew(<< >>, items)])

\* A variant that chooses the form by the width of the joined names and
\* ends every line of a block with a comma.
FormatFromByWidth(module, items) ==
    LET sorted_names == Sorted(Range(items))
        head == FROM_ \o module \o SP_IMPORT_
    IN  IF Len(Join(sorted_names, COMMA_SPACE)) <= 79
        THEN << head \o Join(sorted_names, COMMA_SPACE) >>
        ELSE << head \o LPAREN >>
               \o [k \in DOMAIN sorted_names |-> INDENT \o sorted_names[k] \o << "," >>]
               \o << RPAREN >>

\* One `from` statement of generate_python_import_statements
FormatFrom(module, items) ==
    LET sorted_names == Sorted(Range(items))
        n == Len(sorted_names)
        head == FROM_ \o module \o SP_IMPORT_
    IN  IF n > 1
        THEN << head \o LPAREN >>
               \o [k \in 1..(n - 1) |-> INDENT \o sorted_names[k] \o COMMA_SPACE]
               \o << INDENT \o sorted_names[n], RPAREN >>
        ELSE << head \o Join(sorted_names, COMMA_SPACE) >>

generate_python_import_statements(simple, fi) ==
    LET sorted_imports == Sorted(simple)
        modules == Sorted({ fi[k].module : k \in DOMAIN fi })
        ItemsOf(m) == fi[CHOOSE k \in DOMAIN fi : fi[k].module = m].items
    IN  [k \in DOMAIN sorted_imports |-> IMPORT_ \o sorted_imports[k]]
           \o Flatten([k \in DOMAIN modules |-> FormatFrom(modules[k], ItemsOf(modules[k]))])

PythonFrame == UNCHANGED << policy, hashseed, input, first, BranchVars, text, iter, out_lines,
                            seen_entries, kept, use_statements, other_lines >>

streamline_python_enter ==
    /\ pc = "start" /\ policy = "python"
    /\ IF Blank(text)
       THEN /\ pc' = "done"
            /\ output' = text
            /\ lines' = lines
       ELSE /\ pc' = "scan"
            /\ lines' = StripText(text)
            /\ output' = output
    /\ UNCHANGED << i, simple_imports, from_imports >>
    /\ PythonFrame

PyScanning == pc = "scan" /\ policy = "python" /\ i <= Len(lines)
PyImportLine(line) == StartsWith(line, IMPORT_) /\ ~Contains(line, FROM_)
PyFromLine(line) == ~PyImportLine(line) /\ StartsWith(line, FROM_)
PyOpens(line) == Contains(line, LPAREN) /\ ~Contains(line, RPAREN)

\* `import x` statements
parse_python_import ==
    /\ PyScanning /\ PyImportLine(Strip(lines[i]))
    /\ simple_imports' = simple_imports
            \cup Range(StrippedItems(Slice(Strip(lines[i]), 7, Len(Strip(lines[i])))))
    /\ i' = i + 1
    /\ UNCHANGED << lines, pc, output, from_imports >>
    /\ PythonFrame

\* a multi-line parenthesized `from x import (`
parse_python_from_multi ==
    /\ PyScanning /\ PyFromLine(Strip(lines[i])) /\ PyOpens(Strip(lines[i]))
    /\ from_imports' = add_from_imports(from_imports,
                            parse_multiline_from_import(lines, i).module,
                            parse_multiline_from_import(lines, i).items)
    /\ i' = i + count_lines_until_closing_paren(lines, i)
    /\ UNCHANGED << lines, pc, output, simple_imports >>
    /\ PythonFrame

\* a regular single-line `from x import y`
parse_python_from_single ==
    /\ PyScanning /\ PyFromLine(Strip(lines[i])) /\ ~PyOpens(Strip(lines[i]))
    /\ LET parsed == parse_single_line_from_import(Strip(lines[i]))
       IN  from_imports' = IF parsed.module # << >> /\ parsed.items # << >>
                           THEN add_from_imports(from_imports, parsed.module, parsed.items)
                           ELSE from_imports
    /\ i' = i + 1
    /\ UNCHANGED << lines, pc, output, simple_imports >>
    /\ PythonFrame

\* `i += 1  # Skip non-import lines`
parse_python_skip ==
    /\ PyScanning /\ ~PyImportLine(Strip(lines[i])) /\ ~PyFromLine(Strip(lines[i]))
    /\ i' = i + 1
    /\ UNCHANGED << lines, pc, output, simple_imports, from_imports >>
    /\ PythonFrame

streamline_python_return ==
    /\ pc = "scan" /\ policy = "python" /\ i > Len(lines)
    /\ pc' = "done"
    /\ output' = JoinLines(generate_python_import_statements(simple_imports, from_imports))
    /\ UNCHANGED << lines, i, simple_imports, from_imports >>
    /\ PythonFrame

PythonItems == { 13, 32, 33, 34, 35, 36, 37, 38, 39 }

InitPython ==
    /\ policy = "python"
    /\ hashseed = 0
    /\ input \in Inputs(PythonItems)
    /\ text = TextOf(input)
    /\ lines = << >>
    /\ i = 1
    /\ iter = 0
    /\ pc = "start"
    /\ out_lines = << >>
    /\ seen_entries = << >>
    /\ kept = {}
    /\ use_statements = << >>
    /\ other_lines = << >>
    /\ output = << >>
    /\ first = NotYet
    /\ clip_content = << >> /\ llm_output = NotAsked /\ alfred = NotYet
    /\ simple_imports = {}
    /\ from_imports = << >>

NextPython ==
    \/ streamline_python_enter
    \/ parse_python_import
    \/ parse_python_from_multi
    \/ parse_python_from_single
    \/ parse_python_skip
    \/ streamline_python_return

SpecPython == InitPython /\ [][NextPython]_vars

\* Statements of one name and of several, of short names and of long ones.
FormatPythonItems == { 32, 33, 35, 38, 39, 44, 45 }

InitPythonFormat ==
    /\ policy = "python"
    /\ hashseed = 0
    /\ input \in Inputs(FormatPythonItems)
    /\ text = TextOf(input)
    /\ lines = << >>
    /\ i = 1
    /\ iter = 0
    /\ pc = "start"
    /\ out_lines = << >>
    /\ seen_entries = << >>
    /\ kept = {}
    /\ use_statements = << >>
    /\ other_lines = << >>
    /\ output = << >>
    /\ first = NotYet
    /\ clip_content = << >> /\ llm_output = NotAsked /\ alfred = NotYet
    /\ simple_imports = {}
    /\ from_imports = << >>

SpecPythonFormat == InitPythonFormat /\ [][NextPython]_vars

(***************************************************************************)
(* generate_branch_name_from_clip (src/process_text.py). Its strings may   *)
(* hold newlines, so they are single sequences of characters here.         *)
(***************************************************************************)
NEWLINE == << "\n" >>
HYPHEN == << "-" >>
\* "grave" stands for the grave accent (U+0060), which a TLA+ string cannot hold.
FENCE == << "grave", "grave", "grave" >>
LLM_FAILED == << "l", "l", "m", " ", "f", "a", "i", "l", "e", "d" >>

\* The longest branch name that is not cut.
MaxBranchLen == 50

\* The number of words a branch name is made of.
MaxBranchWords == 2

IsWhitespace(c) == c = " " \/ c = "\n"

\* str.strip() of a string that may hold newlines
StripAll(s) ==
    LET ks == { k \in DOMAIN s : ~IsWhitespace(s[k]) }
    IN  IF ks = {} THEN << >>
        ELSE SubSeq(s, CHOOSE k \in ks : \A j \in ks : k <= j,
                       CHOOSE k \in ks : \A j \in ks : k >= j)

\* str.lower(), on the upper-case letters of the alphabet
Uppers == << "A", "B", "C", "D", "E", "R" >>
Lowers == << "a", "b", "c", "d", "e", "r" >>
LowerChar(c) ==
    IF \E k \in DOMAIN Uppers : Uppers[k] = c
    THEN Lowers[CHOOSE k \in DOMAIN Uppers : Uppers[k] = c]
    ELSE c
Lower(s) == [k \in DOMAIN s |-> LowerChar(s[k])]

\* The character class [a-z0-9]
IsWordChar(c) == IsLower(c) \/ c = "1"

\* re.findall(r"[a-z0-9]+", s)
RECURSIVE findall(_)
findall(s) ==
    IF Len(s) = 0 THEN << >>
    ELSE IF ~IsWordChar(s[1]) THEN findall(Tail(s))
    ELSE LET stops == { k \in DOMAIN s : ~IsWordChar(s[k]) }
             n == IF stops = {} THEN Len(s)
                  ELSE (CHOOSE k \in stops : \A j \in stops : k <= j) - 1
         IN  << SubSeq(s, 1, n) >> \o findall(SubSeq(s, n + 1, Len(s)))

\* A variant that keeps the fence lines.
unwrap_fenced_kept(txt) == txt

\* _unwrap_fenced(text)
unwrap_fenced(txt) ==
    LET ls == Split(StripAll(txt), NEWLINE)
    IN  IF Len(ls) >= 2 /\ StartsWith(ls[1], FENCE) /\ StartsWith(ls[Len(ls)], FENCE)
        THEN Join(SubSeq(ls, 2, Len(ls) - 1), NEWLINE)
        ELSE txt

\* make_alfred_output(arg, {MESSAGE: message, ...})
make_alfred_output(arg_value, message) == [arg |-> arg_value, message |-> message]

\* The try block of generate_branch_name_from_clip, from the LLM's answer on.
branch_name(clip, answer) ==
    LET out == IF answer = << >> \/ answer = LLM_FAILED THEN << >> ELSE answer
        candidate == Lower(StripAll(unwrap_fenced(out)))
        llm_words == findall(candidate)
        words == IF llm_words = << >> THEN findall(Lower(clip)) ELSE llm_words
        branch_parts == IF Len(words) > MaxBranchWords
                        THEN SubSeq(words, 1, MaxBranchWords) ELSE words
        joined == Join(branch_parts, HYPHEN)
    IN  IF words = << >>
        THEN make_alfred_output(<< >>, "Could not derive branch name")
        ELSE make_alfred_output(
                 IF Len(joined) > MaxBranchLen
                 THEN RStripChar(Slice(joined, 0, MaxBranchLen), "-")
                 ELSE joined,
                 "Branch name generated!")

Rep(c, n) == [k \in 1..n |-> c]

\* Clipboard contents: empty, without a word, with one to three words, and
\* with words long enough for the name to be cut.
Clips ==
    { << >>,
      << "!" >>,
      << " " >>,
      << "B", "a", "d", " ", "e", "!" >>,
      << "a", "_", "b", "-", "c", " ", "d" >>,
      << "1", "a" >>,
      Rep("a", 30) \o << " " >> \o Rep("b", 25),
      Rep("a", 49) \o << " ", "b" >> }

\* What _llm can return: nothing, the failure marker, plain words, fenced
\* words (with and without a tag on the opening fence line), no word at all,
\* and words long enough for the name to be cut.
LlmOutputs ==
    { << >>,
      LLM_FAILED,
      << "A", "d", "d", " ", "b", "a", "d", " ", "c", "a", "b" >>,
      << "\n", " ", "A", "d", "d", " ", "\n" >>,
      FENCE \o << "a", "d", "d", "_", "b", ":", " ", "c", "-", "d" >> \o FENCE,
      FENCE \o NEWLINE \o << "a", "d", "d", " ", "b", "e", "d" >> \o NEWLINE \o FENCE,
      FENCE \o << "r", "s" >> \o NEWLINE \o << "a", "d", "d", " ", "b", "e", "d" >>
          \o NEWLINE \o FENCE,
      FENCE \o << "a" >> \o NEWLINE \o FENCE,
      << "!" >>,
      Rep("c", 51),
      Rep("a", 49) \o << " ", "b" >> }

BranchFrame == UNCHANGED << policy, hashseed, input, text, lines, i, iter, out_lines,
                            seen_entries, kept, use_statements, other_lines, output,
                            first, simple_imports, from_imports >>

\* The guard on an empty clipboard.
branch_enter ==
    /\ pc = "start" /\ policy = "branch"
    /\ IF clip_content = << >>
       THEN /\ alfred' = make_alfred_output(<< >>, "Clipboard is empty")
            /\ pc' = "done"
       ELSE /\ alfred' = alfred
            /\ pc' = "llm"
    /\ UNCHANGED << clip_content, llm_output >>
    /\ BranchFrame

\* _llm returns the tool's standard output, or "llm failed".
branch_llm ==
    /\ pc = "llm" /\ policy = "branch"
    /\ \E answer \in LlmOutputs : llm_output' = answer
    /\ pc' = "sanitize"
    /\ UNCHANGED << clip_content, alfred >>
    /\ BranchFrame

\* The words are taken, joined and cut, and the result is returned.
branch_return ==
    /\ pc = "sanitize" /\ policy = "branch"
    /\ alfred' = branch_name(clip_content, llm_output)
    /\ pc' = "done"
    /\ UNCHANGED << clip_content, llm_output >>
    /\ BranchFrame

InitBranch ==
    /\ policy = "branch"
    /\ hashseed = 0
    /\ input = << >>
    /\ text = << >>
    /\ lines = << >>
    /\ i = 1
    /\ iter = 0
    /\ pc = "start"
    /\ out_lines = << >>
    /\ seen_entries = << >>
    /\ kept = {}
    /\ use_statements = << >>
    /\ other_lines = << >>
    /\ output = << >>
    /\ first = NotYet
    /\ simple_imports = {}
    /\ from_imports = << >>
    /\ clip_content \in Clips
    /\ llm_output = NotAsked
    /\ alfred = NotYet

NextBranch == branch_enter \/ branch_llm \/ branch_return

SpecBranch == InitBranch /\ [][NextBranch]_vars

(***************************************************************************)
(* Passing a result in again: the caller applies the same policy to the    *)
(* text the first call returned, in the same process (same hash seed).     *)
(***************************************************************************)
apply_again ==
    /\ pc = "done" /\ first = NotYet
    /\ first' = output
    /\ text' = output
    /\ lines' = << >>
    /\ i' = 1
    /\ iter' = 0
    /\ pc' = "start"
    /\ out_lines' = << >>
    /\ seen_entries' = << >>
    /\ kept' = {}
    /\ use_statements' = << >>
    /\ other_lines' = << >>
    /\ output' = << >>
    /\ simple_imports' = {}
    /\ from_imports' = << >>
    /\ UNCHANGED << policy, hashseed, input, BranchVars >>

\* The call has returned for the second time.
ReturnedAgain == pc = "done" /\ first # NotYet

TwiceGroupItems == { 1, 3, 6, 10, 12, 13, 14, 20, 22, 25, 30 }

InitGroupTwice == InitGroupOver(TwiceGroupItems)

NextGroupTwice == NextGroup \/ apply_again

SpecGroupTwice == InitGroupTwice /\ [][NextGroupTwice]_vars

TwiceUniqueItems == { 1, 3, 6, 10, 12, 13, 14, 27 }

InitUniqueTwice == InitUniqueOver(TwiceUniqueItems)

NextUniqueTwice == NextUnique \/ apply_again

SpecUniqueTwice == InitUniqueTwice /\ [][NextUniqueTwice]_vars

\* Texts whose statements import `self` next to other names.
SelfGroupItems == { 10, 12, 14, 20, 22, 24, 29 }

InitGroupSelf == InitGroupOver(SelfGroupItems)

SpecGroupSelf == InitGroupSelf /\ [][NextGroup]_vars

\* Texts that write the same imports in different forms: spaced, nested, `self`.
FormsUniqueItems == { 1, 6, 10, 20, 21, 22, 24, 26, 31 }

InitUniqueForms == InitUniqueOver(FormsUniqueItems)

SpecUniqueForms == InitUniqueForms /\ [][NextUnique]_vars

(***************************************************************************)
(* Passing in a longer text: the caller applies the unique policy to the   *)
(* text it passed before with one more construct appended.                 *)
(***************************************************************************)
PrefixUniqueItems == { 1, 5, 6, 10, 11, 12, 14 }

call_with_more ==
    /\ pc = "done" /\ policy = "unique" /\ first = NotYet
    /\ Len(input) < MaxItems
    /\ \E c \in PrefixUniqueItems :
          /\ input' = Append(input, c)
          /\ text' = TextOf(Append(input, c))
    /\ first' = output
    /\ lines' = << >>
    /\ i' = 1
    /\ iter' = 0
    /\ pc' = "start"
    /\ out_lines' = << >>
    /\ seen_entries' = << >>
    /\ kept' = {}
    /\ output' = << >>
    /\ UNCHANGED << policy, hashseed, BranchVars, use_statements, other_lines,
                    simple_imports, from_imports >>

InitUniquePrefix == InitUniqueOver(PrefixUniqueItems)

NextUniquePrefix == NextUnique \/ call_with_more

SpecUniquePrefix == InitUniquePrefix /\ [][NextUniquePrefix]_vars

\* Inputs with statements that are opened and never closed, or closed
\* without a `;`, next to whole ones.
UnclosedGroupItems == { 1, 6, 10, 12, 14, 18, 43 }

InitGroupUnclosed == InitGroupOver(UnclosedGroupItems)

SpecGroupUnclosed == InitGroupUnclosed /\ [][NextGroup]_vars

\* Inputs whose low groups have one, two and three items, `self` among them.
RenderGroupItems == { 3, 9, 10, 12, 14, 29, 40 }

InitGroupRender == InitGroupOver(RenderGroupItems)

SpecGroupRender == InitGroupRender /\ [][NextGroup]_vars

\* Inputs whose roots have several sub-paths, in either order of appearance.
SubPathGroupItems == { 10, 12, 14, 22, 29, 30, 41, 42 }

InitGroupSubPath == InitGroupOver(SubPathGroupItems)

SpecGroupSubPath == InitGroupSubPath /\ [][NextGroup]_vars

Init == InitUnique \/ InitGroup \/ InitPython \/ InitBranch

Next == NextUnique \/ NextGroup \/ NextPython \/ NextBranch \/ apply_again

Spec == Init /\ [][Next]_vars

(***************************************************************************)
(* What a text imports. A use declaration is read as Rust reads it, apart  *)
(* from any of the functions above: white space is insignificant, the      *)
(* declaration ends at its first `;`, a brace list distributes its prefix  *)
(* over its items, and `self` as a last segment names the path before it.  *)
(* A name is written out in full ("a::b::C"); a glob stays "a::*".         *)
(***************************************************************************)
ATTR == << "#", "[" >>
PUBUSE == << "p", "u", "b", "u", "s", "e" >>
USEKW == << "u", "s", "e" >>

\* Brace depth in front of position k of s.
Depth(s, k) ==
    Cardinality({ m \in 1..(k - 1) : s[m] = "{" }) - Cardinality({ m \in 1..(k - 1) : s[m] = "}" })

\* The items of a brace list's inside: the runs between its top-level commas.
Pieces(s) ==
    LET cut(k) == k = 0 \/ k = Len(s) + 1 \/ (k \in DOMAIN s /\ s[k] = "," /\ Depth(s, k) = 0)
    IN  { p \in (1..(Len(s) + 1)) \X (0..Len(s)) :
            /\ cut(p[1] - 1) /\ cut(p[2] + 1)
            /\ p[1] <= p[2]
            /\ \A k \in p[1]..p[2] : ~cut(k) }

Leaf(path) ==
    IF EndsWith(path, COLONS \o SELF) THEN SubSeq(path, 1, Len(path) - 6)
    ELSE path

\* The names a use tree imports under a prefix, each with the position of
\* its occurrence, so that a name written twice is counted twice.
RECURSIVE UseTree(_, _, _)
UseTree(prefix, s, at) ==
    IF Len(s) = 0 THEN {}
    ELSE IF s[1] = "{"
    THEN (IF s[Len(s)] # "}" THEN {}
          ELSE LET inner == SubSeq(s, 2, Len(s) - 1)
               IN  UNION { UseTree(prefix, SubSeq(inner, p[1], p[2]), at + p[1]) :
                           p \in Pieces(inner) })
    ELSE LET b == Find(s, LBRACE)
         IN  IF b = 0 THEN { [at |-> at, name |-> Leaf(prefix \o s)] }
             ELSE UseTree(prefix \o SubSeq(s, 1, b - 1), SubSeq(s, b, Len(s)), at + b - 1)

\* A declaration given by its lines, attribute lines included.
IsAttr(l) == StartsWith(Strip(l), ATTR)
Attribute(ls) == RemoveWhitespace(Flatten(SelectSeq(ls, IsAttr)))
DeclText(ls) == RemoveWhitespace(Flatten(SelectSeq(ls, LAMBDA l : ~IsAttr(l))))
IsPub(ls) == StartsWith(DeclText(ls), PUBUSE)
TreeText(ls) ==
    LET t == DeclText(ls)
        from == IF IsPub(ls) THEN 7 ELSE IF StartsWith(t, USEKW) THEN 4 ELSE Len(t) + 1
        semi == Find(t, SEMI)
        to == IF semi = 0 THEN Len(t) ELSE semi - 1
    IN  SubSeq(t, from, to)
Occurrences(ls) == UseTree(<< >>, TreeText(ls), 0)
Names(ls) == { r.name : r \in Occurrences(ls) }
IsGlob(name) == EndsWith(name, GLOB)

\* A glob p::* covers p and everything under p.
Covers(glob, name) ==
    /\ IsGlob(glob)
    /\ LET p == SubSeq(glob, 1, Len(glob) - 3)
       IN  name = p \/ StartsWith(name, p \o COLONS)

\* The constructs of the input. An attribute line on its own belongs to the
\* import statement that follows it; a statement is left out of Imports when
\* that gives it more than one attribute line.
Entry(k) == Catalogue[input[k]]
AttrOnly(k) == \A m \in DOMAIN Entry(k).lines : IsAttr(Entry(k).lines[m])
UseLike(k) ==
    \E m \in DOMAIN Entry(k).lines :
        /\ StartsWith(Strip(Entry(k).lines[m]), USEKW) \/ StartsWith(Strip(Entry(k).lines[m]), PUB_USE_)
        /\ \A n \in 1..(m - 1) : IsAttr(Entry(k).lines[n])
Stacked(k) ==
    /\ k > 1 /\ AttrOnly(k - 1)
    /\ \/ \E m \in DOMAIN Entry(k).lines : IsAttr(Entry(k).lines[m])
       \/ k > 2 /\ AttrOnly(k - 2)
Imports == { k \in DOMAIN input : Entry(k).kind = "import" /\ ~Stacked(k) }
Uses == { k \in DOMAIN input : UseLike(k) }
\* The attribute lines that belong to a statement of Imports.
Attrs == { k \in DOMAIN input : AttrOnly(k) /\ k + 1 \in Imports }
\* Code that is no import, does not look like one and is no attribute of one.
Code ==
    { k \in DOMAIN input :
        /\ Entry(k).kind = "other" /\ ~UseLike(k)
        /\ AttrOnly(k) => (k = Len(input) \/ (~UseLike(k + 1) /\ ~AttrOnly(k + 1))) }
WellFormed == \A k \in DOMAIN input : k \in Imports \cup Attrs \cup Code
FullLines(k) ==
    (IF k > 1 /\ AttrOnly(k - 1) THEN Entry(k - 1).lines ELSE << >>) \o Entry(k).lines
Scope(k) == [attr |-> Attribute(FullLines(k)), is_pub |-> IsPub(FullLines(k))]
NamesOf(k) == Names(Entry(k).lines)
\* Use line j, well formed or not, has the attribute and visibility of import k.
InScope(j, k) ==
    /\ IsPub(Entry(j).lines) = Scope(k).is_pub
    /\ Scope(k).attr \in { Attribute(Entry(j).lines), Attribute(FullLines(j)) }
LinesOf(k) == FirstLine(input, k)..LastLine(input, k)

\* unique: what became of a construct
Emitted(k) == LinesOf(k) \subseteq kept
Dropped(k) == LinesOf(k) \cap kept = {}
Returned == pc = "done"

\* low, high: the imports of the returned text, one record per occurrence
OutStarts ==
    { k \in DOMAIN output : \/ StartsWith(Strip(output[k]), USE_)
                            \/ StartsWith(Strip(output[k]), PUB_USE_) }
OutEnd(k) ==
    LET ends == { m \in k..Len(output) : Contains(output[m], SEMI) }
    IN  IF ends = {} THEN Len(output) ELSE CHOOSE m \in ends : \A n \in ends : m <= n
OutDecl(k) ==
    (IF k > 1 /\ IsAttr(output[k - 1]) THEN << output[k - 1] >> ELSE << >>)
        \o SubSeq(output, k, OutEnd(k))
OutImports ==
    UNION { { [line |-> k, at |-> r.at, name |-> r.name,
               attr |-> Attribute(OutDecl(k)), is_pub |-> IsPub(OutDecl(k))] :
              r \in Occurrences(OutDecl(k)) } : k \in OutStarts }
Regular == { k \in Imports : \A n \in NamesOf(k) : ~IsGlob(n) }

(***************************************************************************)
(* Properties                                                              *)
(***************************************************************************)

\* C1: when the unique policy has returned, of any two import statements
\* with the same attribute, the same visibility and the same set of names
\* the later one has been dropped, and an import statement that is the
\* first use line of the text has been kept.
C1_LaterDuplicateDropped ==
    (policy = "unique" /\ Returned) =>
        /\ \A j \in Imports, k \in Imports :
              (j < k /\ Scope(j) = Scope(k) /\ NamesOf(j) = NamesOf(k)) => Dropped(k)
        /\ \A k \in Imports : (\A j \in Uses : k <= j) => Emitted(k)

\* C2: when the unique policy has returned, no two emitted import statements
\* with the same attribute and visibility have a name in common.
C2_EmittedDisjoint ==
    (policy = "unique" /\ Returned) =>
        \A j \in Imports, k \in Imports :
            (j < k /\ Scope(j) = Scope(k) /\ Emitted(j) /\ Emitted(k))
                => NamesOf(j) \cap NamesOf(k) = {}

\* The lines of ls at the indices of idx, in their order.
RECURSIVE Restrict(_, _)
Restrict(ls, idx) ==
    IF Len(ls) = 0 THEN << >>
    ELSE LET front == Restrict(SubSeq(ls, 1, Len(ls) - 1), idx)
         IN  IF Len(ls) \in idx THEN Append(front, ls[Len(ls)]) ELSE front

\* C3: the text the unique policy returns is the input with some lines
\* removed; every line that is no import is still there, and an import
\* statement is there with all its lines or with none.
C3_OnlyImportsRemoved ==
    (policy = "unique" /\ Returned) =>
        /\ output = (IF Blank(text) THEN text ELSE JoinLines(Restrict(text, kept)))
        /\ ~Blank(text) => \A k \in Code : Emitted(k)
        /\ ~Blank(text) => \A k \in Imports : Emitted(k) \/ Dropped(k)

\* C4: when the unique policy has returned and has emitted a glob p::*,
\* every later import statement with the same attribute and visibility whose
\* names are all p or under p has been dropped.
C4_GlobCoversLater ==
    (policy = "unique" /\ Returned) =>
        \A j \in Imports, k \in Imports :
            (/\ j < k /\ Scope(j) = Scope(k) /\ Emitted(j)
             /\ \E g \in NamesOf(j) : \A n \in NamesOf(k) : Covers(g, n))
                => Dropped(k)

\* C5: the unique policy drops an import statement only when an earlier
\* use line has the same visibility and the same attribute up to white
\* space; and of two attributed statements with the same names, the same
\* visibility and attributes equal up to white space, the later one is
\* dropped with its attribute line once the earlier one was emitted.
C5_ScopedByAttributeAndVisibility ==
    (policy = "unique" /\ Returned) =>
        /\ \A k \in Imports :
              Dropped(k) => \E j \in Uses : j < k /\ InScope(j, k)
        /\ \A j \in Imports, k \in Imports :
              (/\ j < k /\ Scope(j).attr # << >> /\ Scope(j) = Scope(k)
               /\ NamesOf(j) = NamesOf(k) /\ Emitted(j))
                  => Dropped(k)

\* C6: every iteration of a line-scanning loop moves the line index forward.
C6_IndexIncreases ==
    [][(pc = "scan" /\ pc' = "scan") => i' > i]_vars

\* C7: no policy raises an exception.
C7_NeverRaises ==
    pc # "raised"

\* C8: when the high policy has returned on a text of well-formed
\* constructs, every name of a non-glob import statement of the input is
\* imported by the output, under the same visibility, at least once and at
\* most once per attribute it had in the input, and every name the output
\* imports is a name of the input under that visibility.
C8_HighPreservesNames ==
    (policy = "high" /\ Returned /\ WellFormed) =>
        /\ \A k \in Regular : \A n \in NamesOf(k) :
              LET c == Cardinality({ o \in OutImports :
                                       o.name = n /\ o.is_pub = Scope(k).is_pub })
                  attrs == { Scope(j).attr : j \in { m \in Regular :
                                 n \in NamesOf(m) /\ Scope(m).is_pub = Scope(k).is_pub } }
              IN  1 <= c /\ c <= Cardinality(attrs)
        /\ \A o \in OutImports :
              \E k \in Imports : o.name \in NamesOf(k) /\ o.is_pub = Scope(k).is_pub

\* C9: when the low policy has returned on a text of well-formed
\* constructs, every name of a non-glob import statement of the input is
\* imported exactly once by the output under that statement's visibility and
\* attribute, and every name the output imports is a name of the input under
\* the same visibility and attribute.
C9_LowPreservesNames ==
    (policy = "low" /\ Returned /\ WellFormed) =>
        /\ \A k \in Regular : \A n \in NamesOf(k) :
              Cardinality({ o \in OutImports :
                              /\ o.name = n
                              /\ o.is_pub = Scope(k).is_pub
                              /\ o.attr = Scope(k).attr }) = 1
        /\ \A o \in OutImports :
              \E k \in Imports : /\ o.name \in NamesOf(k)
                                 /\ o.is_pub = Scope(k).is_pub
                                 /\ o.attr = Scope(k).attr

\* C10: when the unique policy has returned, every name of every import
\* statement of the input is a name of an emitted use line with the same
\* attribute and visibility, or is covered by a glob of one.
C10_NoNameLost ==
    (policy = "unique" /\ Returned) =>
        \A k \in Imports : \A n \in NamesOf(k) :
            \E j \in Uses :
                /\ Emitted(j) /\ InScope(j, k)
                /\ \E m \in NamesOf(j) : m = n \/ Covers(m, n)

(***************************************************************************)
(* C11: low and high are idempotent on texts made of valid imports,        *)
(* possibly with blank lines or other code between them: applying the      *)
(* policy to its own result returns that result.                           *)
(***************************************************************************)
C11_GroupIdempotent ==
    (ReturnedAgain /\ policy \in {"low", "high"} /\ WellFormed) => output = first

(***************************************************************************)
(* C12: unique is idempotent on every text, also when dropping a statement *)
(* leaves a `#[cfg` line that had no import of its own next to a later     *)
(* import: applying unique to its own result returns that result.          *)
(***************************************************************************)
C12_UniqueIdempotent ==
    (ReturnedAgain /\ policy = "unique") => output = first

(***************************************************************************)
(* C13: each grouping policy is deterministic: the text it returns is the  *)
(* same under every iteration order of the sets it builds. For high, the   *)
(* order of the sub-path entries that come from one braced statement does  *)
(* not depend on that order.                                               *)
(***************************************************************************)
C13_Deterministic ==
    (pc = "done" /\ policy \in {"low", "high"} /\ ~Blank(text)) =>
        \A seed \in HashSeeds :
            (IF policy = "high" THEN high_result(seed) ELSE low_result(seed)).text = output

(***************************************************************************)
(* C14: low and high pass every line that is no import through unchanged,  *)
(* leading indentation included, in the original relative order, before    *)
(* the regenerated import block.                                           *)
(***************************************************************************)
PassedThrough == Flatten([k \in DOMAIN input |-> IF k \in Code THEN Entry(k).lines ELSE << >>])

C14_PassthroughUnchanged ==
    (pc = "done" /\ policy \in {"low", "high"} /\ first = NotYet /\ ~Blank(text)) =>
        /\ Len(output) >= Len(PassedThrough)
        /\ SubSeq(output, 1, Len(PassedThrough)) = PassedThrough

(***************************************************************************)
(* The brace lists of the returned text: each `{...}` of a use declaration *)
(* as the sequence of its items, white space removed.                      *)
(***************************************************************************)
Closes(t, p, q) == q > p /\ t[q] = "}" /\ Depth(t, q + 1) = Depth(t, p)
HasClosing(t, p) == \E q \in DOMAIN t : Closes(t, p, q)
Closing(t, p) == CHOOSE q \in DOMAIN t : Closes(t, p, q) /\ \A r \in DOMAIN t : Closes(t, p, r) => q <= r
ItemsIn(inner) ==
    LET ps == Pieces(inner)
    IN  [n \in 1..Cardinality(ps) |->
            LET p == CHOOSE x \in ps : Cardinality({ y \in ps : y[1] < x[1] }) = n - 1
            IN  SubSeq(inner, p[1], p[2])]
BraceLists(t) ==
    { ItemsIn(SubSeq(t, p + 1, Closing(t, p) - 1)) :
        p \in { x \in DOMAIN t : t[x] = "{" /\ HasClosing(t, x) } }
OutLists == UNION { BraceLists(TreeText(OutDecl(k))) : k \in OutStarts }
\* Every item of the list is a plain name: no path, no nested list.
PlainNames(g) == \A n \in DOMAIN g : ~Contains(g[n], COLONS) /\ ~Contains(g[n], LBRACE)
LowerInitial(it) == Len(it) > 0 /\ IsLower(it[1])
\* Lower-case initials first, then the others, each part ascending.
LowerThenUpper(g) ==
    \A m, n \in DOMAIN g :
        m < n => \/ LowerInitial(g[m]) /\ ~LowerInitial(g[n])
                 \/ LowerInitial(g[m]) = LowerInitial(g[n]) /\ StrLess(g[m], g[n])

(***************************************************************************)
(* C15 as stated: in every block low or high regenerates, a brace list     *)
(* that includes `self` lists it last.                                     *)
(***************************************************************************)
C15_SelfLast ==
    (pc = "done" /\ policy \in {"low", "high"}) =>
        \A g \in OutLists : SELF \in Range(g) => g[Len(g)] = SELF

(***************************************************************************)
(* C15 as amended: low lists `self` last in its brace list; high lists the *)
(* plain names of a brace list with the lower-case initials first, then    *)
(* the others, each part ascending, so `self` stands where it sorts among  *)
(* the lower-case names and before every upper-case name.                  *)
(***************************************************************************)
C15_SelfPlacement ==
    (pc = "done" /\ policy \in {"low", "high"}) =>
        \A g \in OutLists :
            SELF \in Range(g) =>
                IF policy = "low" THEN g[Len(g)] = SELF
                ELSE PlainNames(g) => LowerThenUpper(g)

C15_Witness ==
    /\ pc = "done" /\ policy = "high"
    /\ \E g \in OutLists : Len(g) >= 2 /\ PlainNames(g) /\ g[1] = SELF

(***************************************************************************)
(* C16: under low and high, a group that comes down to exactly one leaf    *)
(* item is written as `use <path>::<item>;`: a regenerated declaration     *)
(* that imports one single name has no braces.                             *)
(***************************************************************************)
C16_SingleLeafUnbraced ==
    (pc = "done" /\ policy \in {"low", "high"}) =>
        \A k \in OutStarts :
            Cardinality(Occurrences(OutDecl(k))) = 1 =>
                ~Contains(TreeText(OutDecl(k)), LBRACE)

(***************************************************************************)
(* C17: unique treats spacing variations as duplicates: of two import      *)
(* statements with the same attribute and visibility that differ in white  *)
(* space only, the later one has been dropped.                             *)
(***************************************************************************)
C17_SpacingVariationsDropped ==
    (Returned /\ policy = "unique") =>
        \A j, k \in Imports :
            (j < k /\ Scope(j) = Scope(k)
                   /\ DeclText(Entry(j).lines) = DeclText(Entry(k).lines)) => Dropped(k)

(***************************************************************************)
(* C18: the canonical name set unique computes for a statement is its full *)
(* recursive expansion: one fully-qualified name per leaf at any depth of  *)
(* nesting, `self` in a brace list standing for the list's base path       *)
(* (names are compared up to white space, which is the matter of C17).     *)
(* Hence a later statement in the same scope all of whose names are in the *)
(* expansion of one earlier braced statement has been dropped.             *)
(***************************************************************************)
StmtStart(k) ==
    FirstLine(input, k)
        + Cardinality({ m \in DOMAIN Entry(k).lines : IsAttr(Entry(k).lines[m]) })
CanonicalNames(k) ==
    { RemoveWhitespace(p) :
        p \in canonicalize_import(<< >>, collect_import_block(TextOf(input), StmtStart(k)).compact,
                                  hashseed).paths }
IsBracedImport(k) == Contains(DeclText(Entry(k).lines), LBRACE)
\* White space next to a `::` of the statement
SpacedPath(k) ==
    \E m \in DOMAIN Entry(k).lines :
        \/ Contains(Entry(k).lines[m], SPACE \o COLONS)
        \/ Contains(Entry(k).lines[m], COLONS \o SPACE)

C18_FullExpansion ==
    (Returned /\ policy = "unique") =>
        /\ \A k \in Imports : CanonicalNames(k) = NamesOf(k)
        /\ \A j, k \in Imports :
              (/\ j < k /\ Scope(j) = Scope(k)
               /\ IsBracedImport(j) /\ ~SpacedPath(j) /\ ~SpacedPath(k)
               /\ NamesOf(k) \subseteq NamesOf(j)) => Dropped(k)

\* A nested list with `self` came first; `use a::b;` and `use a::b::C;` after
\* it have both been dropped.
C18_Witness ==
    /\ Returned /\ policy = "unique"
    /\ \E j, k, m \in Imports :
          /\ j < k /\ j < m /\ k # m
          /\ Count(DeclText(Entry(j).lines), "{") >= 2
          /\ Contains(DeclText(Entry(j).lines), SELF)
          /\ Emitted(j) /\ Dropped(k) /\ Dropped(m)
          /\ NamesOf(k) = { Path2("a", "b") }
          /\ NamesOf(m) = { Path3("a", "b", "C") }
          /\ NamesOf(k) \cup NamesOf(m) \subseteq NamesOf(j)

(***************************************************************************)
(* What a Python text imports, and what the returned text imports: a       *)
(* `from` statement of the result is read line by line, a parenthesized    *)
(* one up to its `)` line, its names separated by commas.                  *)
(***************************************************************************)
PyFroms == { k \in DOMAIN input : Entry(k).kind = "from" }
PyModules == { Entry(k).module : k \in PyFroms }
PyNames(m) == UNION { Entry(k).names : k \in { j \in PyFroms : Entry(j).module = m } }
OutFroms == { k \in DOMAIN output : StartsWith(output[k], FROM_) }
OutModule(k) == Strip(SubSeq(output[k], Len(FROM_) + 1, Find(output[k], SP_IMPORT_) - 1))
NamesOn(line) == SelectSeq(StrippedItems(line), LAMBDA it : it # << >>)
OutNames(k) ==
    LET after == Find(output[k], SP_IMPORT_) + Len(SP_IMPORT_)
        close == CHOOSE m \in (k + 1)..(Len(output) + 1) :
                    /\ m = Len(output) + 1 \/ Strip(output[m]) = RPAREN
                    /\ \A n \in (k + 1)..(m - 1) : Strip(output[n]) # RPAREN
    IN  IF EndsWith(output[k], LPAREN)
        THEN Flatten([n \in 1..(close - k - 1) |-> NamesOn(output[k + n])])
        ELSE NamesOn(SubSeq(output[k], after, Len(output[k])))

(***************************************************************************)
(* C19: streamline_python_imports merges all `from M import ...`           *)
(* statements of one module M into one statement that lists every name     *)
(* imported from M exactly once, the names in ascending order, and the     *)
(* statements are ordered by module name.                                  *)
(***************************************************************************)
C19_FromImportsMerged ==
    (pc = "done" /\ policy = "python" /\ ~Blank(text)) =>
        /\ \A m \in PyModules :
              /\ Cardinality({ k \in OutFroms : OutModule(k) = m }) = 1
              /\ \A k \in OutFroms :
                    OutModule(k) = m =>
                        /\ Range(OutNames(k)) = PyNames(m)
                        /\ \A a, b \in DOMAIN OutNames(k) :
                              a < b => StrLess(OutNames(k)[a], OutNames(k)[b])
        /\ \A j, k \in OutFroms : j < k => StrLess(OutModule(j), OutModule(k))

(***************************************************************************)
(* C20: streamline_python_imports emits every non-import line of its input *)
(* unchanged: a non-blank line that is neither an `import` nor a `from`    *)
(* statement is a line of the returned text.                               *)
(***************************************************************************)
PyOthers == { k \in DOMAIN input : Entry(k).kind = "other" }
C20_NonImportLinesKept ==
    (pc = "done" /\ policy = "python" /\ ~Blank(text)) =>
        \A k \in PyOthers :
            \A n \in DOMAIN Entry(k).lines :
                Strip(Entry(k).lines[n]) # << >> =>
                    \E m \in DOMAIN output : output[m] = Entry(k).lines[n]

(***************************************************************************)
(* What a branch name is made of, read off the strings themselves: the     *)
(* words of a string are its maximal runs of lower-case letters and        *)
(* digits, from left to right.                                             *)
(***************************************************************************)
WordRuns(s) ==
    { r \in (DOMAIN s) \X (DOMAIN s) :
        /\ r[1] <= r[2]
        /\ \A k \in r[1]..r[2] : IsWordChar(s[k])
        /\ r[1] = 1 \/ ~IsWordChar(s[r[1] - 1])
        /\ r[2] = Len(s) \/ ~IsWordChar(s[r[2] + 1]) }
RunsBefore(s, r) == { q \in WordRuns(s) : q[1] < r[1] }
LeadingWords(s) == { r \in WordRuns(s) : Cardinality(RunsBefore(s, r)) < MaxBranchWords }
\* The first two words of s joined by a hyphen, s[k] |-> its place in the name
NameOf(s) ==
    LET rs == LeadingWords(s)
        a == CHOOSE r \in rs : RunsBefore(s, r) = {}
        b == CHOOSE r \in rs : RunsBefore(s, r) # {}
    IN  IF rs = {} THEN << >>
        ELSE IF Cardinality(rs) = 1 THEN SubSeq(s, a[1], a[2])
        ELSE SubSeq(s, a[1], a[2]) \o << "-" >> \o SubSeq(s, b[1], b[2])
IsPrefix(p, s) == Len(p) <= Len(s) /\ SubSeq(s, 1, Len(p)) = p
BranchChars(s) == \A k \in DOMAIN s : IsWordChar(s[k]) \/ s[k] = "-"
\* arg is the name, or what is left of a name of more than 50 characters
NamedBy(arg, name) ==
    /\ IsPrefix(arg, name)
    /\ Len(name) <= MaxBranchLen => arg = name
    /\ Len(arg) <= MaxBranchLen
    /\ BranchChars(arg)

\* The lines between an opening and a closing line of three grave accents,
\* when the answer without its surrounding whitespace has such lines.
Newlines(s) == { k \in DOMAIN s : s[k] = "\n" }
Fenced(s) ==
    LET t == StripAll(s)
        q == CHOOSE k \in Newlines(t) : \A j \in Newlines(t) : j <= k
    IN  /\ Newlines(t) # {}
        /\ IsPrefix(FENCE, t)
        /\ IsPrefix(FENCE, SubSeq(t, q + 1, Len(t)))
Unfenced(s) ==
    LET t == StripAll(s)
        p == CHOOSE k \in Newlines(t) : \A j \in Newlines(t) : k <= j
        q == CHOOSE k \in Newlines(t) : \A j \in Newlines(t) : j <= k
    IN  IF Fenced(s) THEN SubSeq(t, p + 1, q - 1) ELSE s

BranchReturned == pc = "done" /\ policy = "branch"

(***************************************************************************)
(* C21 (as stated): for a non-empty clipboard the returned arg is made of  *)
(* the first at most two words of the lower-cased LLM output joined by a   *)
(* hyphen, or of the lower-cased clipboard when the LLM output is empty,   *)
(* is "llm failed" or has no word; it holds only lower-case letters,       *)
(* digits and hyphens and at most 50 characters. For an empty clipboard    *)
(* the arg is empty and the message is "Clipboard is empty".               *)
(***************************************************************************)
C21_BranchNameFromOutput ==
    BranchReturned =>
        IF clip_content = << >>
        THEN alfred.arg = << >> /\ alfred.message = "Clipboard is empty"
        ELSE LET answered == /\ llm_output # << >>
                             /\ llm_output # LLM_FAILED
                             /\ WordRuns(Lower(llm_output)) # {}
             IN  NamedBy(alfred.arg,
                         IF answered THEN NameOf(Lower(llm_output))
                         ELSE NameOf(Lower(clip_content)))

(***************************************************************************)
(* C21 (amended): the same, with the words of the LLM output taken after   *)
(* its enclosing code fence lines have been removed.                       *)
(***************************************************************************)
C21_BranchNameFromUnfenced ==
    BranchReturned =>
        IF clip_content = << >>
        THEN alfred.arg = << >> /\ alfred.message = "Clipboard is empty"
        ELSE LET answered == /\ llm_output # << >>
                             /\ llm_output # LLM_FAILED
                             /\ WordRuns(Lower(Unfenced(llm_output))) # {}
             IN  NamedBy(alfred.arg,
                         IF answered THEN NameOf(Lower(Unfenced(llm_output)))
                         ELSE NameOf(Lower(clip_content)))

\* A fenced answer whose opening fence line carries a word has been turned
\* into a name made of the words between the fence lines.
C21_Witness ==
    /\ BranchReturned /\ clip_content # << >>
    /\ Fenced(llm_output)
    /\ NameOf(Lower(Unfenced(llm_output))) # << >>
    /\ NameOf(Lower(Unfenced(llm_output))) # NameOf(Lower(llm_output))
    /\ alfred.arg = NameOf(Lower(Unfenced(llm_output)))

(***************************************************************************)
(* C22: streamline_rust_imports, the default entry point (it returns what  *)
(* the unique policy returns), consolidates imports that share a root      *)
(* module into one braced block: `use a::b::C;` followed by `use a::B;`    *)
(* gives the one statement `use a::{` / `    b::C,` / `    B,` / `};`, and *)
(* whenever two plain imports of a text share their root, the returned     *)
(* text has one `use` statement for that root.                             *)
(***************************************************************************)
RootOf(name) ==
    IF Contains(name, COLONS) THEN SubSeq(name, 1, Find(name, COLONS) - 1) ELSE name
PlainScope == [attr |-> << >>, is_pub |-> FALSE]
OutRoots(k) == { RootOf(n) : n \in Names(OutDecl(k)) }
C22_DefaultConsolidates ==
    (Returned /\ policy = "unique") =>
        /\ input = << 22, 1 >> =>
              output = << USE_ \o << "a" >> \o COLONS \o LBRACE,
                          INDENT \o Path2("b", "C") \o << "," >>,
                          INDENT \o << "B", "," >>,
                          CLOSE >>
        /\ \A j, k \in Regular :
              (/\ j < k /\ Scope(j) = PlainScope /\ Scope(k) = PlainScope
               /\ NamesOf(j) # NamesOf(k)
               /\ \E r \in { RootOf(n) : n \in NamesOf(j) } :
                     r \in { RootOf(n) : n \in NamesOf(k) })
              => \A r \in { RootOf(n) : n \in NamesOf(j) } \cap { RootOf(n) : n \in NamesOf(k) } :
                    Cardinality({ m \in OutStarts : r \in OutRoots(m) }) = 1

(***************************************************************************)
(* C23: low-policy rendering of one group. For each (base path,            *)
(* visibility, attribute) group that collect_low_groups hands over, with   *)
(* item set S, the returned text holds the statement that lists S in       *)
(* ascending order with `self` last: `use <base>::<item>;` for one item,   *)
(* the single line `use <base>::{a, b};` for two, and for more the block   *)
(* `use <base>::{`, one `    <item>,` line per item, `};`; the statement   *)
(* directly follows the attribute line of the group, if it has one.        *)
(***************************************************************************)
LowGroups == collect_low_groups(use_statements, hashseed).grouped
LowKeys == { [base |-> g.base, is_pub |-> g.is_pub, attr |-> g.attr] : g \in LowGroups }
ItemsOf(key) ==
    { g.item : g \in { h \in LowGroups :
                          h.base = key.base /\ h.is_pub = key.is_pub /\ h.attr = key.attr } }
\* The one arrangement of S that ascends and ends with `self`
Arranged(S) ==
    CHOOSE its \in [1..Cardinality(S) -> S] :
        /\ { its[k] : k \in DOMAIN its } = S
        /\ \A a, b \in DOMAIN its :
              a < b => /\ its[a] # SELF
                       /\ its[b] = SELF \/ StrLess(its[a], its[b])
Rendered(key) ==
    LET its == Arranged(ItemsOf(key))
        head == (IF key.is_pub THEN PUB_USE_ ELSE USE_) \o key.base \o COLONS
    IN  IF Len(its) = 1 THEN << head \o its[1] \o SEMI >>
        ELSE IF Len(its) = 2
        THEN << head \o LBRACE \o its[1] \o COMMA_SPACE \o its[2] \o CLOSE >>
        ELSE << head \o LBRACE >>
             \o [k \in DOMAIN its |-> INDENT \o its[k] \o COMMA]
             \o << CLOSE >>
HoldsAt(n, key) ==
    /\ n + Len(Rendered(key)) - 1 <= Len(output)
    /\ SubSeq(output, n, n + Len(Rendered(key)) - 1) = Rendered(key)
    /\ key.attr # << >> => n > 1 /\ output[n - 1] = key.attr
C23_LowRendering ==
    (Returned /\ policy = "low") =>
        \A key \in LowKeys : \E n \in DOMAIN output : HoldsAt(n, key)

\* One text has given a two-item group and a three-item group, the latter
\* with `self` and an item that sorts after it.
C23_Witness ==
    /\ Returned /\ policy = "low"
    /\ \E k2, k3 \in LowKeys :
          /\ Cardinality(ItemsOf(k2)) = 2
          /\ Cardinality(ItemsOf(k3)) = 3
          /\ SELF \in ItemsOf(k3)
          /\ \E it \in ItemsOf(k3) : StrLess(SELF, it)
          /\ \A k \in {k2, k3} : \E n \in DOMAIN output : HoldsAt(n, k)

(***************************************************************************)
(* The paths a text imports as they are written (`self` kept), each with   *)
(* its place in the text: root, sub-path and item of root::sub::item.      *)
(***************************************************************************)
RECURSIVE WrittenTree(_, _, _)
WrittenTree(prefix, s, at) ==
    IF Len(s) = 0 THEN {}
    ELSE IF s[1] = "{"
    THEN (IF s[Len(s)] # "}" THEN {}
          ELSE LET inner == SubSeq(s, 2, Len(s) - 1)
               IN  UNION { WrittenTree(prefix, SubSeq(inner, p[1], p[2]), at + p[1]) :
                           p \in Pieces(inner) })
    ELSE LET b == Find(s, LBRACE)
         IN  IF b = 0 THEN { [at |-> at, path |-> prefix \o s] }
             ELSE WrittenTree(prefix \o SubSeq(s, 1, b - 1), SubSeq(s, b, Len(s)), at + b - 1)
Segments(path) == Split(path, COLONS)
WrittenIn(k) ==
    { [k |-> k, at |-> w.at,
       root |-> Segments(w.path)[1],
       sub |-> Join(SubSeq(Segments(w.path), 2, Len(Segments(w.path)) - 1), COLONS),
       item |-> Segments(w.path)[Len(Segments(w.path))],
       depth |-> Len(Segments(w.path)),
       is_pub |-> IsPub(Entry(k).lines)] :
      w \in WrittenTree(<< >>, TreeText(Entry(k).lines), 0) }
Written == UNION { WrittenIn(k) : k \in Imports }
Earlier(v, w) == v.k < w.k \/ (v.k = w.k /\ v.at < w.at)
NoAttributes == \A k \in DOMAIN input : ~(\E m \in DOMAIN Entry(k).lines : IsAttr(Entry(k).lines[m]))

\* The sub-paths of a (root, visibility) in the order they first appear
SubsOf(root, is_pub) == { w.sub : w \in { v \in Written : v.root = root /\ v.is_pub = is_pub } }
FirstOf(root, is_pub, sub) ==
    CHOOSE w \in Written :
        /\ w.root = root /\ w.is_pub = is_pub /\ w.sub = sub
        /\ \A v \in Written :
              (v.root = root /\ v.is_pub = is_pub /\ v.sub = sub) => (v = w \/ Earlier(w, v))
InOrderOfAppearance(root, is_pub) ==
    LET S == SubsOf(root, is_pub)
    IN  CHOOSE q \in [1..Cardinality(S) -> S] :
            /\ { q[n] : n \in DOMAIN q } = S
            /\ \A a, b \in DOMAIN q :
                  a < b => Earlier(FirstOf(root, is_pub, q[a]), FirstOf(root, is_pub, q[b]))
\* Lower-case initials first, then the rest, each part ascending
LowerFirst(S) ==
    Sorted({ it \in S : LowerInitial(it) }) \o Sorted({ it \in S : ~LowerInitial(it) })
SubEntry(root, is_pub, sub) ==
    LET its == LowerFirst({ w.item : w \in { v \in Written :
                              v.root = root /\ v.is_pub = is_pub /\ v.sub = sub } })
    IN  IF Len(its) = 1 THEN sub \o COLONS \o its[1]
        ELSE sub \o COLONS \o LBRACE \o Join(its, COMMA_SPACE) \o << "}" >>
HighBlock(root, is_pub) ==
    LET subs == InOrderOfAppearance(root, is_pub)
    IN  << (IF is_pub THEN PUB_USE_ ELSE USE_) \o root \o COLONS \o LBRACE >>
        \o [n \in DOMAIN subs |-> INDENT \o SubEntry(root, is_pub, subs[n]) \o COMMA]
        \o << CLOSE >>
\* The sub-paths are all non-empty and do not all begin with one segment.
NoCommonSegment(root, is_pub) ==
    /\ << >> \notin SubsOf(root, is_pub)
    /\ \E s, t \in SubsOf(root, is_pub) : Segments(s)[1] # Segments(t)[1]
RootsWritten == { [root |-> w.root, is_pub |-> w.is_pub] : w \in Written }
BlocksOf(g) ==
    { n \in DOMAIN output :
        /\ n + Len(HighBlock(g.root, g.is_pub)) - 1 <= Len(output)
        /\ SubSeq(output, n, n + Len(HighBlock(g.root, g.is_pub)) - 1)
              = HighBlock(g.root, g.is_pub) }

(***************************************************************************)
(* C24: high-policy rendering of a root whose sub-paths have no common     *)
(* leading segment. The returned text holds one block `use <root>::{`,     *)
(* entries, `};` for the (root, visibility), and no other statement: one   *)
(* entry per sub-path in the order the sub-paths first appear in the text, *)
(* written `sub::item` or `sub::{items}`, the items with lower-case        *)
(* initials first and the others after, each part in ascending order.      *)
(***************************************************************************)
C24_HighBlockInOrder ==
    (Returned /\ policy = "high" /\ WellFormed /\ NoAttributes) =>
        \A g \in RootsWritten :
            NoCommonSegment(g.root, g.is_pub) =>
                /\ Cardinality(BlocksOf(g)) = 1
                /\ Cardinality({ n \in OutStarts :
                      StartsWith(Strip(output[n]),
                                 (IF g.is_pub THEN PUB_USE_ ELSE USE_) \o g.root \o COLONS) }) = 1

(***************************************************************************)
(* C25: in the high policy the highest common sub-path of a root is        *)
(* non-empty only when at least two distinct non-empty sub-paths are       *)
(* recorded for the root (and they agree on a leading segment); a root     *)
(* whose imports all lie under one sub-path has no common sub-path and is  *)
(* written as the block `use a::{`, `    b::{C, D},`, `};`.                *)
(***************************************************************************)
HighGroups == collect_root_groups(use_statements, hashseed).groups
RecordedSubs(group) == { group.subs[k].sub : k \in DOMAIN group.subs } \ { << >> }
C25_CommonNeedsTwoSubPaths ==
    (Returned /\ policy = "high") =>
        /\ \A k \in DOMAIN HighGroups :
              highest_common_subpath(HighGroups[k]) # << >> =>
                  Cardinality(RecordedSubs(HighGroups[k])) >= 2
        /\ (WellFormed /\ NoAttributes) =>
              \A g \in RootsWritten :
                  (Cardinality(SubsOf(g.root, g.is_pub)) = 1 /\ ~NoCommonSegment(g.root, g.is_pub)
                   /\ << >> \notin SubsOf(g.root, g.is_pub))
                  => BlocksOf(g) # {}

(***************************************************************************)
(* C26: under the low and high policies attributes are preserved and never *)
(* mixed. Every name the text imports under an attribute (or under none)   *)
(* is imported by the returned text in a statement directly preceded by    *)
(* that attribute line (or by none), and the returned text imports no name *)
(* under an attribute (or under none) that the text did not import it      *)
(* under.                                                                  *)
(***************************************************************************)
C26_AttributesKept ==
    (Returned /\ policy \in {"low", "high"} /\ first = NotYet /\ WellFormed) =>
        /\ \A k \in Imports : \A n \in NamesOf(k) :
              \E o \in OutImports : o.name = n /\ o.attr = Scope(k).attr
        /\ \A o \in OutImports :
              \E k \in Imports : o.name \in NamesOf(k) /\ o.attr = Scope(k).attr

(***************************************************************************)
(* C27: the unique policy is append-only and one-directional. While a text *)
(* is scanned, what has been emitted stays emitted: out_lines only grows   *)
(* at its end. So `use a::B;` followed by `use a::*;` keeps both, and what *)
(* is returned for a text that ends at a statement boundary is a prefix of *)
(* what is returned for that text with more appended.                      *)
(***************************************************************************)
\* A construct after which a text is at a statement boundary: a whole import,
\* or code that is neither an attribute line nor the start of a statement.
Complete(c) ==
    \/ Catalogue[c].kind = "import"
    \/ /\ Catalogue[c].kind = "other"
       /\ \A m \in DOMAIN Catalogue[c].lines :
             /\ ~IsAttr(Catalogue[c].lines[m])
             /\ ~StartsWith(RemoveWhitespace(Catalogue[c].lines[m]), USEKW)
             /\ ~StartsWith(RemoveWhitespace(Catalogue[c].lines[m]), PUBUSE)
PrefixKept ==
    /\ (/\ ReturnedAgain /\ policy = "unique"
        /\ Len(input) = 1 \/ Complete(input[Len(input) - 1]))
          => IsPrefix(Join(first, NEWLINE), Join(output, NEWLINE))
    /\ (Returned /\ policy = "unique" /\ input = << 1, 5 >>) => output = text
Grows ==
    (policy = "unique" /\ pc' # "start") =>
        /\ IsPrefix(out_lines, out_lines')
        /\ kept \subseteq kept'
C27_AppendOnly == [](PrefixKept) /\ [][Grows]_vars

(***************************************************************************)
(* C28: parse_import_statements never loses a line. When it returns, each  *)
(* line of its input is accounted for exactly once: read from the first    *)
(* line to the last, every line is the next passthrough line or belongs to *)
(* the next record (as its attribute or as a part of its statement), and   *)
(* no passthrough line or record is left over. This includes the lines     *)
(* from a braced import that is never closed, or closed without a `;`, to  *)
(* the end of the input.                                                   *)
(***************************************************************************)
Stripped(a, b) == [n \in 1..(b - a + 1) |-> Strip(lines[a + n - 1])]
\* Record r is made of exactly the lines a..b
MadeOf(r, a, b) ==
    \/ /\ use_statements[r].cfg = << >>
       /\ use_statements[r].stmt = Join(Stripped(a, b), SPACE)
    \/ /\ a < b
       /\ use_statements[r].cfg = Strip(lines[a])
       /\ use_statements[r].stmt = Join(Stripped(a + 1, b), SPACE)
RECURSIVE Accounted(_, _, _)
Accounted(k, r, o) ==
    IF k > Len(lines) THEN r > Len(use_statements) /\ o > Len(other_lines)
    ELSE \/ /\ o <= Len(other_lines)
            /\ other_lines[o] = Strip(lines[k])
            /\ Accounted(k + 1, r, o + 1)
         \/ /\ r <= Len(use_statements)
            /\ \E b \in k..Len(lines) : MadeOf(r, k, b) /\ Accounted(b + 1, r + 1, o)
Parsed == pc = "collect" /\ policy \in {"low", "high"}
C28_NoLineLost == Parsed => Accounted(1, 1, 1)

\* A braced import that is never closed came first and a whole import after
\* it: the opening line is a passthrough line and the import a record.
C28_Witness ==
    /\ Parsed
    /\ Len(input) >= 2 /\ input[1] = 18 /\ input[2] \in {1, 12}
    /\ other_lines # << >> /\ other_lines[1] = Strip(lines[1])
    /\ use_statements # << >>
    /\ Accounted(1, 1, 1)

(***************************************************************************)
(* The statement generate_python_import_statements writes for one module   *)
(* of from_imports is looked for in the returned text as a run of          *)
(* consecutive lines.                                                      *)
(***************************************************************************)
PythonReturned == pc = "done" /\ policy = "python" /\ ~Blank(text)
WrittenAt(block, k) ==
    /\ k + Len(block) - 1 <= Len(output)
    /\ \A n \in DOMAIN block : output[k + n - 1] = block[n]
WrittenOnce(block) == Cardinality({ k \in DOMAIN output : WrittenAt(block, k) }) = 1
NamesSorted(e) == Sorted(Range(e.items))
Joined(e) == Join(NamesSorted(e), COMMA_SPACE)
FromHead(e) == FROM_ \o e.module \o SP_IMPORT_
OnOneLine(e) == << FromHead(e) \o Joined(e) >>
\* every name on a line of its own, followed by `after`, the last by `last`
AsBlock(e, after, last) ==
    << FromHead(e) \o LPAREN >>
       \o [k \in DOMAIN NamesSorted(e) |->
              INDENT \o NamesSorted(e)[k]
                 \o (IF k = Len(NamesSorted(e)) THEN last ELSE after)]
       \o << RPAREN >>

PyImports == { k \in DOMAIN input : Entry(k).kind = "pyimport" }
ImportedByOutput(m, name) ==
    \E k \in OutFroms : OutModule(k) = m /\ name \in Range(OutNames(k))
C30_NoNameLost ==
    PythonReturned =>
        /\ \A k \in PyImports : \E n \in DOMAIN output : output[n] = IMPORT_ \o Entry(k).module
        /\ \A k \in PyFroms : \A name \in Entry(k).names :
              ImportedByOutput(Entry(k).module, name)

====
